---- MODULE Spec2Model ----
(***************************************************************************)
(* The IR store of the decompiler core (class Funcdata): variables          *)
(* (Varnode), operations (PcodeOp), basic blocks, and the linkage,          *)
(* insertion and destruction edits of funcdata_op.cc / funcdata_varnode.cc. *)
(*                                                                          *)
(* The store is carried through the edits as one record F:                  *)
(*   F.vb   the variable bank  (Funcdata::vbank)                            *)
(*   F.ob   the operation bank (Funcdata::obank)                            *)
(*   F.bl   the op list of every basic block                                *)
(*   F.err  "" or the text of the exception the edit threw                  *)
(* Every edit is an operator from F to F; an edit that has thrown leaves    *)
(* the rest of the enclosing edit unexecuted, as a C++ exception does.      *)
(***************************************************************************)
EXTENDS Integers, Sequences, FiniteSets, TLC

\* ------------------------------------------------------------------ bounds
MaxVn == 4          \* variables ever created in one run (creation indexes 1..MaxVn)
MaxIn == 2          \* input slots of one operation
ByteBits == 2       \* bits of one byte of an operand (the code's bytes have 8)
IntbBytes == 2      \* bytes of the widest integer intb (the code's intb has 8)
MaxNode == 3        \* variables of the data-flow graph an ancestry walk runs on
MaxSub == 2         \* sub-actions of the root action
MaxRestarts == 2    \* maxrestarts of the restart group
MaxOp == 2          \* operations ever created in one run of the op life cycle
MaxArch == 2        \* ArchitectureGhidra objects ever created by one process
MaxSpace == 2       \* address spaces of the architecture
MaxDelay == 2       \* largest delay and dead-code delay a space is configured with
MaxPass == 4        \* heritage passes of one function
MaxCmd == 4         \* commands one process reads before the model stops it
MaxLoop == 2        \* variables of a data-flow graph with loops
AddrBits == 2       \* bits of an offset into an address space (the code's uintb has 64)
MaxFree == 3        \* free variables that are candidates for input
MaxJoin == 3        \* join records one address space manager allocates

VnIds == 1..MaxVn
NullVn == 0         \* (Varnode *)0
NullOp == 0         \* (PcodeOp *)0
NoBlock == 0        \* (BlockBasic *)0
CapReached == "model-cap"

VARIABLES vbank, obank, blocks, err, last, walk, act, srv, her, fd, mgr

vars == <<vbank, obank, blocks, err, last, walk, act, srv, her, fd, mgr>>

\* No ancestry walk has been run.
NoWalk == [phase |-> "none"]

\* No root action is set up.
NoAct == [phase |-> "none"]

\* No command process is running.
NoSrv == [phase |-> "none"]

\* No heritage is set up.
NoHer == [phase |-> "none"]

\* No function's properties are followed.
NoFd == [phase |-> "none"]

\* No address space manager is set up.
NoMgr == [phase |-> "none"]

\* The store as the edits see it.
Store == [vb |-> vbank, ob |-> obank, bl |-> blocks, err |-> ""]

\* ------------------------------------------------------- sequence helpers
RemoveAt(s, i) == [j \in 1..(Len(s) - 1) |-> IF j < i THEN s[j] ELSE s[j + 1]]

InsertAt(s, i, x) ==
    [j \in 1..(Len(s) + 1) |-> IF j < i THEN s[j] ELSE IF j = i THEN x ELSE s[j - 1]]

Count(s, x) == Cardinality({j \in 1..Len(s) : s[j] = x})

IndexOf(s, x) ==
    IF \E j \in 1..Len(s) : s[j] = x
    THEN CHOOSE j \in 1..Len(s) : s[j] = x /\ \A k \in 1..(j - 1) : s[k] # x
    ELSE 0

Range(s) == {s[j] : j \in 1..Len(s)}

\* ------------------------------------------- Varnode / PcodeOp primitives
isConstant(F, vn) == "constant" \in F.vb.flags[vn]
isSpacebase(F, vn) == "spacebase" \in F.vb.flags[vn]
isInput(F, vn) == "input" \in F.vb.flags[vn]
isMark(F, vn) == "mark" \in F.vb.flags[vn]
isTypeLock(F, vn) == "typelock" \in F.vb.flags[vn]
isFree(F, vn) == F.vb.flags[vn] \cap {"written", "input"} = {}
hasNoDescend(F, vn) == F.vb.descend[vn] = << >>
getDef(F, vn) == F.vb.def[vn]
getOut(F, op) == F.ob.output[op]
getIn(F, op, slot) == F.ob.inrefs[op][slot]
numInput(F, op) == Len(F.ob.inrefs[op])
getParent(F, op) == F.ob.parent[op]
code(F, op) == F.ob.code[op]

Throw(F, what) == IF F.err # "" THEN F ELSE [F EXCEPT !.err = what]

\* Varnode::addDescend: the reader list is insertion ordered.
addDescend(F, vn, op) ==
    IF F.err # "" THEN F
    ELSE [F EXCEPT !.vb.descend[vn] = Append(@, op)]

\* Varnode::eraseDescend: one entry of op leaves the list.
eraseDescend(F, vn, op) ==
    IF F.err # "" THEN F
    ELSE IF IndexOf(F.vb.descend[vn], op) = 0
         THEN Throw(F, "invariant-violation: reader-list entry not found")
         ELSE [F EXCEPT !.vb.descend[vn] = RemoveAt(@, IndexOf(@, op))]

\* PcodeOp::setInput / clearInput / setOutput
setInput(F, op, vn, slot) ==
    IF F.err # "" THEN F ELSE [F EXCEPT !.ob.inrefs[op][slot] = vn]

clearInput(F, op, slot) ==
    IF F.err # "" THEN F ELSE [F EXCEPT !.ob.inrefs[op][slot] = NullVn]

setOutput(F, op, vn) ==
    IF F.err # "" THEN F ELSE [F EXCEPT !.ob.output[op] = vn]

\* PcodeOp::setNumInputs / insertInput / removeInput
setNumInputs(F, op, num) ==
    IF F.err # "" THEN F
    ELSE [F EXCEPT !.ob.inrefs[op] = [j \in 1..num |-> NullVn]]

insertInput(F, op, slot) ==
    IF F.err # "" THEN F
    ELSE [F EXCEPT !.ob.inrefs[op] = InsertAt(@, slot, NullVn)]

removeInput(F, op, slot) ==
    IF F.err # "" THEN F
    ELSE [F EXCEPT !.ob.inrefs[op] = RemoveAt(@, slot)]

\* PcodeOp::getSlot: the first slot holding vn (0: none).
getSlot(F, op, vn) == IndexOf(F.ob.inrefs[op], vn)

\* VarnodeBank::create: a new free variable with the next creation index.
bankCreate(F, s, off, fl) ==
    IF F.err # "" THEN F
    ELSE IF F.vb.count >= MaxVn THEN Throw(F, CapReached)
    ELSE LET vn == F.vb.count + 1
         IN [F EXCEPT !.vb.count = vn,
                      !.vb.live = @ \cup {vn},
                      !.vb.flags[vn] = fl,
                      !.vb.size[vn] = s,
                      !.vb.offset[vn] = off,
                      !.vb.def[vn] = NullOp,
                      !.vb.descend[vn] = << >>]

\* The variable the last bankCreate made.
newest(F) == F.vb.count

\* VarnodeBank::createDef: a new variable already written by op.
bankCreateDef(F, s, off, op) ==
    IF F.err # "" THEN F
    ELSE LET G == bankCreate(F, s, off, {"written"})
         IN IF G.err # "" THEN G ELSE [G EXCEPT !.vb.def[newest(G)] = op]

\* VarnodeBank::makeFree: no definer, neither written nor input.
makeFree(F, vn) ==
    IF F.err # "" THEN F
    ELSE [F EXCEPT !.vb.def[vn] = NullOp,
                   !.vb.flags[vn] = @ \ {"written", "input", "indirect_creation"}]

\* VarnodeBank::setDef: only a free, non-constant variable can be written.
bankSetDef(F, vn, op) ==
    IF F.err # "" THEN F
    ELSE IF ~isFree(F, vn)
         THEN Throw(F, "invariant-violation: defining varnode which is not free")
    ELSE IF isConstant(F, vn)
         THEN Throw(F, "invariant-violation: assignment to constant")
    ELSE [F EXCEPT !.vb.def[vn] = op, !.vb.flags[vn] = @ \cup {"written"}]

\* VarnodeBank::destroy: frees a variable nothing refers to.
bankDestroy(F, vn) ==
    IF F.err # "" THEN F
    ELSE IF getDef(F, vn) # NullOp \/ ~hasNoDescend(F, vn)
         THEN Throw(F, "invariant-violation: deleting integrated varnode")
    ELSE [F EXCEPT !.vb.live = @ \ {vn}]

\* Varnode::destroyDescend
destroyDescend(F, vn) ==
    IF F.err # "" THEN F ELSE [F EXCEPT !.vb.descend[vn] = << >>]

\* PcodeOpBank::markAlive / markDead: which of the two lists holds op.
markAlive(F, op) == IF F.err # "" THEN F ELSE [F EXCEPT !.ob.dead[op] = FALSE]
markDead(F, op) == IF F.err # "" THEN F ELSE [F EXCEPT !.ob.dead[op] = TRUE]

\* PcodeOpBank::destroy: only a dead op can be freed.
obankDestroy(F, op) ==
    IF F.err # "" THEN F
    ELSE IF ~F.ob.dead[op]
         THEN Throw(F, "invariant-violation: deleting integrated op")
    ELSE [F EXCEPT !.ob.live = @ \ {op}]

\* PcodeOpBank::create: a new op with the given number of empty input slots and
\* no opcode yet; it starts in the dead list, in no block.
obankCreate(F, inputs) ==
    IF F.err # "" THEN F
    ELSE IF F.ob.count >= MaxOp THEN Throw(F, CapReached)
    ELSE LET op == F.ob.count + 1
         IN [F EXCEPT !.ob.count = op,
                      !.ob.live = @ \cup {op},
                      !.ob.code[op] = "BLANK",
                      !.ob.inrefs[op] = [i \in 1..inputs |-> NullVn],
                      !.ob.output[op] = NullVn,
                      !.ob.parent[op] = NoBlock,
                      !.ob.dead[op] = TRUE]

\* PcodeOpBank::changeOpcode
changeOpcode(F, op, opc) ==
    IF F.err # "" THEN F ELSE [F EXCEPT !.ob.code[op] = opc]

\* BlockBasic::insert(iter, op): op goes in front of position pos (Len+1: the end).
blockInsert(F, bl, pos, op) ==
    IF F.err # "" THEN F
    ELSE [F EXCEPT !.bl[bl] = InsertAt(@, pos, op), !.ob.parent[op] = bl]

\* BlockBasic::removeOp
blockRemoveOp(F, bl, op) ==
    IF F.err # "" THEN F
    ELSE [F EXCEPT !.bl[bl] = RemoveAt(@, IndexOf(@, op)), !.ob.parent[op] = NoBlock]

\* PcodeOp::isMarker, isFlowBreak
isMarker(F, op) == code(F, op) \in {"MULTIEQUAL", "INDIRECT"}
isFlowBreak(F, op) == code(F, op) \in {"BRANCH", "CBRANCH", "BRANCHIND", "RETURN"}

\* PcodeOp::getOpFromConst of an IOP annotation: the op it encodes (0: not an IOP).
getOpFromConst(F, vn) == F.vb.iop[vn]

\* --------------------------------------------------- Funcdata: variables
\* Funcdata::newConstant
newConstant(F, s, constant_val) == bankCreate(F, s, constant_val, {"constant"})

\* Funcdata::newVarnodeOut (newUniqueOut makes the same bindings)
newVarnodeOut(F, s, m, op) ==
    LET G == bankCreateDef(F, s, m, op)
    IN setOutput(G, op, newest(G))

\* Funcdata::destroyVarnode, the loop over the reader list
RECURSIVE clearReaders(_, _, _)
clearReaders(F, vn, i) ==
    IF F.err # "" \/ i > Len(F.vb.descend[vn]) THEN F
    ELSE LET op == F.vb.descend[vn][i]
             slot == getSlot(F, op, vn)
         IN IF slot = 0
            THEN Throw(F, "undefined: reader does not hold the variable")
            ELSE clearReaders(clearInput(F, op, slot), vn, i + 1)

\* destroyVarnode without the loop that nulls the readers' input slots.
destroyVarnode_KeepsReaders(F, vn) ==
    IF F.err # "" THEN F
    ELSE IF vn = NullVn \/ vn \notin F.vb.live
    THEN Throw(F, "undefined: null or freed varnode dereferenced")
    ELSE
    LET F2 == IF getDef(F, vn) # NullOp
              THEN [setOutput(F, getDef(F, vn), NullVn) EXCEPT !.vb.def[vn] = NullOp]
              ELSE F
    IN bankDestroy(destroyDescend(F2, vn), vn)

\* Funcdata::destroyVarnode
destroyVarnode(F, vn) ==
    IF F.err # "" THEN F
    ELSE IF vn = NullVn \/ vn \notin F.vb.live
    THEN Throw(F, "undefined: null or freed varnode dereferenced")
    ELSE
    LET F1 == clearReaders(F, vn, 1)
        F2 == IF F1.err = "" /\ getDef(F1, vn) # NullOp
              THEN [setOutput(F1, getDef(F1, vn), NullVn) EXCEPT !.vb.def[vn] = NullOp]
              ELSE F1
    IN bankDestroy(destroyDescend(F2, vn), vn)

\* Funcdata::clearDeadVarnodes, one variable of the sweep
sweepOne(F, vn) ==
    IF F.err # "" \/ vn \notin F.vb.live \/ ~hasNoDescend(F, vn) THEN F
    ELSE LET F1 == IF isInput(F, vn) /\ ~isMark(F, vn)
                      /\ (isSpacebase(F, vn) \/ ~isTypeLock(F, vn))
                   THEN makeFree(F, vn)
                   ELSE F
         IN IF isFree(F1, vn) THEN bankDestroy(F1, vn) ELSE F1

RECURSIVE sweepFrom(_, _)
sweepFrom(F, vn) ==
    IF vn > MaxVn THEN F ELSE sweepFrom(sweepOne(F, vn), vn + 1)

\* Funcdata::clearDeadVarnodes
clearDeadVarnodes(F) == sweepFrom(F, 1)

\* --------------------------------------------------- Funcdata: linkage
\* opUnsetOutput that frees the detached output at once.
opUnsetOutput_Destroys(F, op) ==
    LET vn == getOut(F, op)
    IN IF vn = NullVn THEN F
       ELSE destroyVarnode(F, vn)

\* Funcdata::opUnsetOutput
opUnsetOutput(F, op) ==
    LET vn == getOut(F, op)
    IN IF vn = NullVn THEN F
       ELSE makeFree(setOutput(F, op, NullVn), vn)

\* opSetOutput that refuses to touch an existing binding.
opSetOutput_RejectsBound(F, op, vn) ==
    IF vn = getOut(F, op) THEN F
    ELSE IF getOut(F, op) # NullVn \/ getDef(F, vn) # NullOp
         THEN Throw(F, "invariant-violation: output already bound")
         ELSE setOutput(bankSetDef(F, vn, op), op, vn)

\* Funcdata::opSetOutput
opSetOutput(F, op, vn) ==
    IF vn = getOut(F, op) THEN F
    ELSE LET F1 == IF getOut(F, op) # NullVn THEN opUnsetOutput(F, op) ELSE F
             F2 == IF getDef(F1, vn) # NullOp
                   THEN opUnsetOutput(F1, getDef(F1, vn))
                   ELSE F1
             F3 == bankSetDef(F2, vn, op)
         IN setOutput(F3, op, vn)

\* Funcdata::opUnsetInput
\* opUnsetInput that empties the slot and leaves the reader list alone.
opUnsetInput_KeepsReader(F, op, slot) ==
    LET vn == getIn(F, op, slot)
    IN IF vn = NullVn THEN Throw(F, "undefined: null varnode dereferenced")
       ELSE clearInput(F, op, slot)

opUnsetInput(F, op, slot) ==
    LET vn == getIn(F, op, slot)
    IN IF vn = NullVn THEN Throw(F, "undefined: null varnode dereferenced")
       ELSE clearInput(eraseDescend(F, vn, op), op, slot)

\* opSetInput without the unlinking of the slot's previous variable.
opSetInput_KeepsOldReader(F, op, vn, slot) ==
    IF F.err # "" \/ vn = getIn(F, op, slot) THEN F
    ELSE LET dup == isConstant(F, vn) /\ ~hasNoDescend(F, vn) /\ ~isSpacebase(F, vn)
             F1 == IF dup THEN newConstant(F, F.vb.size[vn], F.vb.offset[vn]) ELSE F
             v == IF dup THEN newest(F1) ELSE vn
         IN setInput(addDescend(F1, v, op), op, v, slot)

\* opSetInput without the duplication of a constant that already has a reader.
opSetInput_SharesConstant(F, op, vn, slot) ==
    IF F.err # "" \/ vn = getIn(F, op, slot) THEN F
    ELSE LET F2 == IF getIn(F, op, slot) # NullVn THEN opUnsetInput(F, op, slot) ELSE F
         IN setInput(addDescend(F2, vn, op), op, vn, slot)

\* Funcdata::opSetInput
opSetInput(F, op, vn, slot) ==
    IF F.err # "" \/ vn = getIn(F, op, slot) THEN F
    ELSE LET dup == isConstant(F, vn) /\ ~hasNoDescend(F, vn) /\ ~isSpacebase(F, vn)
             F1 == IF dup THEN newConstant(F, F.vb.size[vn], F.vb.offset[vn]) ELSE F
             v == IF dup THEN newest(F1) ELSE vn
             F2 == IF getIn(F1, op, slot) # NullVn THEN opUnsetInput(F1, op, slot) ELSE F1
         IN setInput(addDescend(F2, v, op), op, v, slot)

\* Funcdata::opSwapInput
opSwapInput(F, op, slot1, slot2) ==
    LET tmp == getIn(F, op, slot1)
    IN setInput(setInput(F, op, getIn(F, op, slot2), slot1), op, tmp, slot2)

\* Funcdata::opSetAllInput, first loop
RECURSIVE unsetAllFrom(_, _, _)
unsetAllFrom(F, op, i) ==
    IF F.err # "" \/ i > numInput(F, op) THEN F
    ELSE unsetAllFrom(IF getIn(F, op, i) # NullVn THEN opUnsetInput(F, op, i) ELSE F,
                      op, i + 1)

\* Funcdata::opSetAllInput, second loop
RECURSIVE setAllFrom(_, _, _, _)
setAllFrom(F, op, vvec, i) ==
    IF F.err # "" \/ i > numInput(F, op) THEN F
    ELSE setAllFrom(opSetInput(F, op, vvec[i], i), op, vvec, i + 1)

\* Funcdata::opSetAllInput
opSetAllInput(F, op, vvec) ==
    setAllFrom(setNumInputs(unsetAllFrom(F, op, 1), op, Len(vvec)), op, vvec, 1)

\* Funcdata::opRemoveInput
opRemoveInput(F, op, slot) == removeInput(opUnsetInput(F, op, slot), op, slot)

\* Funcdata::opInsertInput
opInsertInput(F, op, vn, slot) == opSetInput(insertInput(F, op, slot), op, vn, slot)

\* Funcdata::newOp
newOp(F, inputs) == obankCreate(F, inputs)

\* Funcdata::opSetOpcode
opSetOpcode(F, op, opc) == changeOpcode(F, op, opc)

\* Funcdata::opInsert
opInsert(F, op, bl, pos) == blockInsert(markAlive(F, op), bl, pos, op)

\* opUninsert that leaves the op in the alive list.
opUninsert_StaysAlive(F, op) == blockRemoveOp(F, getParent(F, op), op)

\* Funcdata::opUninsert
opUninsert(F, op) == blockRemoveOp(markDead(F, op), getParent(F, op), op)

\* Funcdata::opUnlink, the loop over the input slots
RECURSIVE unlinkFrom(_, _, _)
unlinkFrom(F, op, i) ==
    IF F.err # "" \/ i > numInput(F, op) THEN F
    ELSE unlinkFrom(opUnsetInput(F, op, i), op, i + 1)

\* opUnlink that destroys the output as opDestroy does.
opUnlink_DestroysOutput(F, op) ==
    LET F0 == IF getOut(F, op) # NullVn THEN destroyVarnode(F, getOut(F, op)) ELSE F
        F1 == unlinkFrom(F0, op, 1)
    IN IF F1.err = "" /\ getParent(F1, op) # NoBlock THEN opUninsert(F1, op) ELSE F1

\* Funcdata::opUnlink
opUnlink(F, op) ==
    LET F1 == unlinkFrom(opUnsetOutput(F, op), op, 1)
    IN IF F1.err = "" /\ getParent(F1, op) # NoBlock THEN opUninsert(F1, op) ELSE F1

\* opDestroy that leaves the op in its block.
opDestroy_StaysInBlock(F, op) ==
    LET F1 == IF getOut(F, op) # NullVn THEN destroyVarnode(F, getOut(F, op)) ELSE F
    IN unsetAllFrom(F1, op, 1)

\* Funcdata::opDestroy
opDestroy(F, op) ==
    LET F1 == IF getOut(F, op) # NullVn THEN destroyVarnode(F, getOut(F, op)) ELSE F
        F2 == unsetAllFrom(F1, op, 1)
    IN IF F2.err = "" /\ getParent(F2, op) # NoBlock
       THEN blockRemoveOp(markDead(F2, op), getParent(F2, op), op)
       ELSE F2

\* Funcdata::opDestroyRaw, the loop over the input slots
RECURSIVE destroyInputsFrom(_, _, _)
destroyInputsFrom(F, op, i) ==
    IF F.err # "" \/ i > numInput(F, op) THEN F
    ELSE destroyInputsFrom(destroyVarnode(F, getIn(F, op, i)), op, i + 1)

\* Funcdata::opDestroyRaw
opDestroyRaw(F, op) ==
    LET F1 == destroyInputsFrom(F, op, 1)
        F2 == IF F1.err = "" /\ getOut(F1, op) # NullVn
              THEN destroyVarnode(F1, getOut(F1, op))
              ELSE F1
    IN obankDestroy(F2, op)

\* --------------------------------------------------- Funcdata: insertion
\* The loop of opInsertBefore: back over the INDIRECTs in front of position i.
RECURSIVE skipIndirectBack(_, _, _)
skipIndirectBack(F, ops, i) ==
    IF i = 1 THEN 1
    ELSE IF code(F, ops[i - 1]) # "INDIRECT" THEN i
    ELSE skipIndirectBack(F, ops, i - 1)

\* The loop of opInsertAfter and opInsertBegin: forward over the MULTIEQUALs at i.
RECURSIVE skipMultiequalFwd(_, _, _)
skipMultiequalFwd(F, ops, i) ==
    IF i > Len(ops) THEN i
    ELSE IF code(F, ops[i]) # "MULTIEQUAL" THEN i
    ELSE skipMultiequalFwd(F, ops, i + 1)

\* Funcdata::opInsertBefore
opInsertBefore(F, op, follow) ==
    LET parent == getParent(F, follow)
        iter == IndexOf(F.bl[parent], follow)
        pos == IF code(F, op) # "INDIRECT"
               THEN skipIndirectBack(F, F.bl[parent], iter)
               ELSE iter
    IN opInsert(F, op, parent, pos)

\* Funcdata::opInsertAfter
opInsertAfter(F, op, prev0) ==
    LET invn == IF numInput(F, prev0) >= 2 THEN getIn(F, prev0, 2) ELSE NullVn
        prev == IF isMarker(F, prev0) /\ code(F, prev0) = "INDIRECT"
                   /\ invn # NullVn /\ getOpFromConst(F, invn) # NullOp
                THEN getOpFromConst(F, invn)
                ELSE prev0
        parent == getParent(F, prev)
        iter == IndexOf(F.bl[parent], prev) + 1
        pos == IF code(F, op) # "MULTIEQUAL"
               THEN skipMultiequalFwd(F, F.bl[parent], iter)
               ELSE iter
    IN IF parent = NoBlock
       THEN Throw(F, "undefined: iterator of an op that is in no block")
       ELSE opInsert(F, op, parent, pos)

\* Funcdata::opInsertBegin
opInsertBegin(F, op, bl) ==
    LET pos == IF code(F, op) # "MULTIEQUAL"
               THEN skipMultiequalFwd(F, F.bl[bl], 1)
               ELSE 1
    IN opInsert(F, op, bl, pos)

\* Funcdata::opInsertEnd
opInsertEnd(F, op, bl) ==
    LET n == Len(F.bl[bl])
        pos == IF n # 0 /\ isFlowBreak(F, F.bl[bl][n]) THEN n ELSE n + 1
    IN opInsert(F, op, bl, pos)

\* ------------------------------------------------------------- the steps
Undefined(G) == G.err \in {"undefined: null varnode dereferenced",
                           "undefined: null or freed varnode dereferenced",
                           "undefined: reader does not hold the variable",
                           "undefined: iterator of an op that is in no block"}

\* One call of an edit: the store becomes G, the call and the case it met are noted.
\* Calls that break the edit's stated preconditions of use (a null or freed pointer
\* handed in) and calls beyond the model's cap are not part of the model.
Step(G, call, case) ==
    /\ ~Undefined(G)
    /\ G.err # CapReached
    /\ vbank' = G.vb
    /\ obank' = G.ob
    /\ blocks' = G.bl
    /\ err' = G.err
    /\ last' = [call |-> call, case |-> case]
    /\ walk' = walk
    /\ act' = act
    /\ srv' = srv
    /\ her' = her
    /\ fd' = fd
    /\ mgr' = mgr

LiveOps == obank.live
LiveVns == vbank.live
Slots(op) == 1..Len(obank.inrefs[op])
\* Variables that take part in data-flow (an IOP annotation does not).
FlowVns == {vn \in LiveVns : vbank.iop[vn] = NullOp}
BlockIds == DOMAIN blocks

\* The edits that change the number of input slots are applied to the ops whose
\* opcode takes any number of inputs (CALL, MULTIEQUAL, ...).
VariableArity(op) == obank.code[op] \in {"CALL", "MULTIEQUAL", "RETURN", "BRANCHIND"}

OpSetInputAct(op, vn, slot) ==
    Step(opSetInput(Store, op, vn, slot), "opSetInput",
         IF vn = obank.inrefs[op][slot] THEN "same"
         ELSE IF isConstant(Store, vn) /\ ~hasNoDescend(Store, vn)
              THEN (IF isSpacebase(Store, vn) THEN "shared-spacebase" ELSE "shared-constant")
              ELSE "plain")

OpUnsetInputAct(op, slot) ==
    /\ obank.inrefs[op][slot] # NullVn
    /\ Step(opUnsetInput(Store, op, slot), "opUnsetInput", "")

OpInsertInputAct(op, vn, slot) ==
    /\ VariableArity(op)
    /\ Len(obank.inrefs[op]) < MaxIn
    /\ Step(opInsertInput(Store, op, vn, slot), "opInsertInput", "")

OpRemoveInputAct(op, slot) ==
    /\ VariableArity(op)
    /\ obank.inrefs[op][slot] # NullVn
    /\ Step(opRemoveInput(Store, op, slot), "opRemoveInput", "")

OpSetAllInputAct(op, vvec) ==
    /\ VariableArity(op)
    /\ Step(opSetAllInput(Store, op, vvec), "opSetAllInput", "")

OpSwapInputAct(op, slot1, slot2) ==
    Step(opSwapInput(Store, op, slot1, slot2), "opSwapInput", "")

\* Input vectors of up to MaxIn variables.
Vvecs == UNION {[1..n -> FlowVns] : n \in 0..MaxIn}

NextLink ==
    \/ \E op \in LiveOps, vn \in FlowVns : \E slot \in Slots(op) : OpSetInputAct(op, vn, slot)
    \/ \E op \in LiveOps : \E slot \in Slots(op) : OpUnsetInputAct(op, slot)
    \/ \E op \in LiveOps, vn \in FlowVns :
          \E slot \in 1..(Len(obank.inrefs[op]) + 1) : OpInsertInputAct(op, vn, slot)
    \/ \E op \in LiveOps : \E slot \in Slots(op) : OpRemoveInputAct(op, slot)
    \/ \E op \in LiveOps, vvec \in Vvecs : OpSetAllInputAct(op, vvec)
    \/ \E op \in LiveOps : \E slot1, slot2 \in Slots(op) : OpSwapInputAct(op, slot1, slot2)

\* Variables after construction: v1 a function input in a register, v2 the
\* constant #5:4, v3 a spacebase constant #0:4.
InitVbankLink ==
    [live |-> {1, 2, 3},
     count |-> 3,
     flags |-> [vn \in VnIds |-> CASE vn = 1 -> {"input"}
                                   [] vn = 2 -> {"constant"}
                                   [] vn = 3 -> {"constant", "spacebase"}
                                   [] OTHER -> {}],
     size |-> [vn \in VnIds |-> IF vn <= 3 THEN 4 ELSE 0],
     offset |-> [vn \in VnIds |-> CASE vn = 1 -> 16 [] vn = 2 -> 5 [] OTHER -> 0],
     def |-> [vn \in VnIds |-> NullOp],
     descend |-> [vn \in VnIds |-> << >>],
     iop |-> [vn \in VnIds |-> NullOp]]

\* Two ops as newOp(2, pc) and newOp(1, pc) make them, a CALL and a COPY, both
\* inserted in block 1 (alive), their inputs not linked yet.
InitObankLink ==
    [live |-> {1, 2},
     code |-> [op \in {1, 2} |-> IF op = 1 THEN "CALL" ELSE "COPY"],
     inrefs |-> [op \in {1, 2} |-> IF op = 1 THEN <<NullVn, NullVn>> ELSE <<NullVn>>],
     output |-> [op \in {1, 2} |-> NullVn],
     parent |-> [op \in {1, 2} |-> 1],
     dead |-> [op \in {1, 2} |-> FALSE]]

InitLink ==
    /\ vbank = InitVbankLink
    /\ obank = InitObankLink
    /\ blocks = [b \in {1} |-> <<1, 2>>]
    /\ err = ""
    /\ last = [call |-> "", case |-> ""]
    /\ walk = NoWalk
    /\ act = NoAct
    /\ srv = NoSrv
    /\ her = NoHer
    /\ fd = NoFd
    /\ mgr = NoMgr

SpecLink == InitLink /\ [][NextLink]_vars

\* ------------------------------------------------------------------ C1
isAlive(op) == op \in obank.live /\ ~obank.dead[op]

\* C1 as stated: for every alive operation op and every input slot i, op appears
\* exactly once in the reader list of op.inputs[i].
C1_ReaderExactlyOnce ==
    \A op \in obank.live : isAlive(op) =>
        \A i \in Slots(op) :
            obank.inrefs[op][i] # NullVn
                => Count(vbank.descend[obank.inrefs[op][i]], op) = 1

\* C1 amended: after any sequence of linkage edits, every operation op appears in
\* the reader list of every variable vn exactly as many times as op has input slots
\* that hold vn (once per slot, so twice when vn sits in two slots of op).
C1_ReaderOncePerSlot ==
    \A op \in obank.live : \A vn \in vbank.live :
        Count(vbank.descend[vn], op) = Count(obank.inrefs[op], vn)

\* An alive op holds one variable in two slots and is listed twice as its reader.
C1_Witness ==
    \E op \in obank.live : \E vn \in vbank.live :
        /\ isAlive(op)
        /\ Count(obank.inrefs[op], vn) = 2
        /\ Count(vbank.descend[vn], op) = 2
        /\ last.call \in {"opSetInput", "opInsertInput", "opSetAllInput"}

\* ------------------------------------------------------------------ C3
\* C3 as stated: no constant variable is ever an input of more than one operation.
C3_ConstantSingleReader ==
    \A c \in vbank.live :
        isConstant(Store, c) => Cardinality(Range(vbank.descend[c])) <= 1

\* C3 amended: between any two edits every constant that does not carry the
\* spacebase property has at most one reader-list entry, and every variable an edit
\* creates is the duplicate set-input makes of such a constant: a constant of the
\* same size and value as a constant that has its one reader, read by exactly the
\* one op it was linked to.  (A spacebase constant is linked as it is and may be
\* shared.)
C3_NonSpacebaseConstantSingleReader ==
    [][/\ \A c \in vbank'.live :
            ("constant" \in vbank'.flags[c] /\ "spacebase" \notin vbank'.flags[c])
                => Len(vbank'.descend[c]) <= 1
       /\ \A w \in vbank'.live \ vbank.live :
            /\ vbank'.flags[w] = {"constant"}
            /\ Len(vbank'.descend[w]) = 1
            /\ \E op \in obank.live : w \in Range(obank'.inrefs[op])
            /\ \E c \in vbank.live :
                  /\ isConstant(Store, c) /\ ~isSpacebase(Store, c)
                  /\ Len(vbank'.descend[c]) = 1
                  /\ vbank'.size[w] = vbank.size[c]
                  /\ vbank'.offset[w] = vbank.offset[c]]_vars

\* set-input was given a constant that already had a reader and linked a duplicate:
\* two constants of the same size and value, one reader each.
C3_Witness ==
    /\ last = [call |-> "opSetInput", case |-> "shared-constant"]
    /\ \E c, w \in vbank.live :
          /\ c # w
          /\ vbank.flags[c] = {"constant"} /\ vbank.flags[w] = {"constant"}
          /\ vbank.size[c] = vbank.size[w] /\ vbank.offset[c] = vbank.offset[w]
          /\ Len(vbank.descend[c]) = 1 /\ Len(vbank.descend[w]) = 1

\* ------------------------------------------------- insertion into blocks
isDeadOp(op) == op \in obank.live /\ obank.dead[op] /\ obank.parent[op] = NoBlock
InBlock(op) == op \in obank.live /\ obank.parent[op] # NoBlock

OpInsertBeforeAct(op, follow) ==
    /\ isDeadOp(op) /\ InBlock(follow)
    /\ Step(opInsertBefore(Store, op, follow), "opInsertBefore", obank.code[op])

OpInsertAfterAct(op, prev) ==
    /\ isDeadOp(op) /\ InBlock(prev)
    /\ Step(opInsertAfter(Store, op, prev), "opInsertAfter", obank.code[op])

OpInsertBeginAct(op, bl) ==
    /\ isDeadOp(op)
    /\ Step(opInsertBegin(Store, op, bl), "opInsertBegin", obank.code[op])

OpInsertEndAct(op, bl) ==
    /\ isDeadOp(op)
    /\ Step(opInsertEnd(Store, op, bl), "opInsertEnd", obank.code[op])

OpUninsertAct(op) ==
    /\ InBlock(op)
    /\ Step(opUninsert(Store, op), "opUninsert", obank.code[op])

NextBlock ==
    \/ \E op, follow \in LiveOps : OpInsertBeforeAct(op, follow)
    \/ \E op, prev \in LiveOps : OpInsertAfterAct(op, prev)
    \/ \E op \in LiveOps, bl \in BlockIds : OpInsertBeginAct(op, bl)
    \/ \E op \in LiveOps, bl \in BlockIds : OpInsertEndAct(op, bl)
    \/ \E op \in LiveOps : OpUninsertAct(op)

\* The ops of the insertion specification, all detached: a MULTIEQUAL, a COPY, an
\* INDIRECT guarding the RETURN (its input 1 is the IOP annotation of op 4), the
\* RETURN and a BRANCH.
BlockOpIds == 1..5

InitObankBlock ==
    [live |-> BlockOpIds,
     code |-> [op \in BlockOpIds |->
                 CASE op = 1 -> "MULTIEQUAL" [] op = 2 -> "COPY" [] op = 3 -> "INDIRECT"
                   [] op = 4 -> "RETURN" [] OTHER -> "BRANCH"],
     inrefs |-> [op \in BlockOpIds |-> IF op = 3 THEN <<1, 2>> ELSE << >>],
     output |-> [op \in BlockOpIds |-> NullVn],
     parent |-> [op \in BlockOpIds |-> NoBlock],
     dead |-> [op \in BlockOpIds |-> TRUE]]

\* v1 the register the INDIRECT guards, v2 the IOP annotation naming op 4.
InitVbankBlock ==
    [live |-> {1, 2},
     count |-> 2,
     flags |-> [vn \in VnIds |-> CASE vn = 1 -> {"input"} [] vn = 2 -> {"annotation"}
                                   [] OTHER -> {}],
     size |-> [vn \in VnIds |-> IF vn <= 2 THEN 4 ELSE 0],
     offset |-> [vn \in VnIds |-> IF vn = 1 THEN 16 ELSE 0],
     def |-> [vn \in VnIds |-> NullOp],
     descend |-> [vn \in VnIds |-> IF vn <= 2 THEN <<3>> ELSE << >>],
     iop |-> [vn \in VnIds |-> IF vn = 2 THEN 4 ELSE NullOp]]

InitBlock ==
    /\ vbank = InitVbankBlock
    /\ obank = InitObankBlock
    /\ blocks = [b \in {1, 2} |-> << >>]
    /\ err = ""
    /\ last = [call |-> "", case |-> ""]
    /\ walk = NoWalk
    /\ act = NoAct
    /\ srv = NoSrv
    /\ her = NoHer
    /\ fd = NoFd
    /\ mgr = NoMgr

SpecBlock == InitBlock /\ [][NextBlock]_vars

\* ------------------------------------------------------------------ C4
\* C4 as stated: after any sequence of insert-before, insert-after, insert-begin
\* and insert-end calls, every basic block has all its MULTIEQUAL operations before
\* all of its non-MULTIEQUAL operations.
C4_PhiFirst ==
    \A b \in BlockIds : \A i, j \in 1..Len(blocks[b]) :
        (i < j /\ obank.code[blocks[b][j]] = "MULTIEQUAL")
            => obank.code[blocks[b][i]] = "MULTIEQUAL"

\* ------------------------------------------------------------------ C5
\* C5 as stated: in every basic block that contains a branch operation, that
\* branch is the last operation of the block.
C5_BranchLast ==
    \A b \in BlockIds : \A i \in 1..Len(blocks[b]) :
        obank.code[blocks[b][i]] \in {"BRANCH", "CBRANCH", "BRANCHIND"}
            => i = Len(blocks[b])

\* ------------------------------------------------------------------ C6
\* The op an INDIRECT shadows: the op its IOP annotation (input 1) encodes.
Shadowed(ob, vb, ind) == vb.iop[ob.inrefs[ind][2]]

\* Every INDIRECT in a block stands in front of the op it shadows, in the same
\* block, with nothing but INDIRECTs in between.
IndirectAdjacent(ob, vb, bls) ==
    \A b \in DOMAIN bls : \A i \in 1..Len(bls[b]) :
        ob.code[bls[b][i]] = "INDIRECT"
            => \E j \in (i + 1)..Len(bls[b]) :
                  /\ bls[b][j] = Shadowed(ob, vb, bls[b][i])
                  /\ \A k \in (i + 1)..(j - 1) : ob.code[bls[b][k]] = "INDIRECT"

\* The ops a step inserts into a block.
Inserted == {op \in obank.live : obank.parent[op] = NoBlock /\ obank'.parent[op] # NoBlock}

\* C6 as stated: after any insert-before, insert-after, insert-begin or insert-end
\* of a non-INDIRECT operation, every INDIRECT in the block is still adjacent to
\* the operation it shadows.
C6_IndirectStaysAdjacent ==
    [][(/\ IndirectAdjacent(obank, vbank, blocks)
        /\ Inserted # {}
        /\ \A op \in Inserted : obank.code[op] # "INDIRECT")
          => IndirectAdjacent(obank', vbank', blocks')]_vars

\* ------------------------------------------- outputs and destruction
\* set-output is handed variables that can be written: no input, no constant.
OpSetOutputAct(op, vn) ==
    /\ vbank.flags[vn] \cap {"input", "constant"} = {}
    /\ Step(opSetOutput(Store, op, vn), "opSetOutput",
            IF vn = obank.output[op] THEN "same"
            ELSE IF vbank.def[vn] # NullOp \/ obank.output[op] # NullVn THEN "bound"
            ELSE "unbound")

OpUnsetOutputAct(op) ==
    Step(opUnsetOutput(Store, op), "opUnsetOutput",
         IF obank.output[op] = NullVn THEN "no-output"
         ELSE IF vbank.descend[obank.output[op]] # << >> THEN "output-read"
         ELSE "output-unread")

NewVarnodeOutAct(op) ==
    Step(newVarnodeOut(Store, 4, 48, op), "newVarnodeOut",
         IF obank.output[op] # NullVn THEN "had-output" ELSE "no-output")

OpDestroyAct(op) ==
    Step(opDestroy(Store, op), "opDestroy",
         IF obank.parent[op] # NoBlock THEN "in-block" ELSE "detached")

OpDestroyRawAct(op) ==
    Step(opDestroyRaw(Store, op), "opDestroyRaw", "")

DestroyVarnodeAct(vn) ==
    Step(destroyVarnode(Store, vn), "destroyVarnode",
         IF vbank.def[vn] # NullOp \/ vbank.descend[vn] # << >>
         THEN "referenced" ELSE "unreferenced")

ClearDeadVarnodesAct ==
    Step(clearDeadVarnodes(Store), "clearDeadVarnodes", "")

NextOut ==
    \/ \E op \in LiveOps, vn \in FlowVns : OpSetOutputAct(op, vn)
    \/ \E op \in LiveOps : OpUnsetOutputAct(op)
    \/ \E op \in LiveOps : NewVarnodeOutAct(op)
    \/ \E op \in LiveOps, vn \in FlowVns : \E slot \in Slots(op) : OpSetInputAct(op, vn, slot)
    \/ \E op \in LiveOps, bl \in BlockIds : OpInsertEndAct(op, bl)
    \/ \E op \in LiveOps : OpDestroyAct(op)
    \/ \E op \in LiveOps : OpDestroyRawAct(op)
    \/ \E vn \in FlowVns : DestroyVarnodeAct(vn)
    \/ ClearDeadVarnodesAct

\* Variables after flow generation: v1 a function input in a register, v2 a free
\* register variable; a third variable was created and destroyed again with the
\* raw op it belonged to (creation indexes are not reused).
InitVbankOut ==
    [live |-> {1, 2},
     count |-> 3,
     flags |-> [vn \in VnIds |-> IF vn = 1 THEN {"input"} ELSE {}],
     size |-> [vn \in VnIds |-> IF vn <= 3 THEN 4 ELSE 0],
     offset |-> [vn \in VnIds |-> CASE vn = 1 -> 16 [] vn = 2 -> 32 [] OTHER -> 0],
     def |-> [vn \in VnIds |-> NullOp],
     descend |-> [vn \in VnIds |-> << >>],
     iop |-> [vn \in VnIds |-> NullOp]]

\* Two detached ops as newOp(0, pc) and newOp(1, pc) leave them: a CALL without
\* parameters and a COPY.
InitObankOut ==
    [live |-> {1, 2},
     code |-> [op \in {1, 2} |-> IF op = 1 THEN "CALL" ELSE "COPY"],
     inrefs |-> [op \in {1, 2} |-> IF op = 1 THEN << >> ELSE <<NullVn>>],
     output |-> [op \in {1, 2} |-> NullVn],
     parent |-> [op \in {1, 2} |-> NoBlock],
     dead |-> [op \in {1, 2} |-> TRUE]]

InitOut ==
    /\ vbank = InitVbankOut
    /\ obank = InitObankOut
    /\ blocks = [b \in {1} |-> << >>]
    /\ err = ""
    /\ last = [call |-> "", case |-> ""]
    /\ walk = NoWalk
    /\ act = NoAct
    /\ srv = NoSrv
    /\ her = NoHer
    /\ fd = NoFd
    /\ mgr = NoMgr

SpecOut == InitOut /\ [][NextOut]_vars

\* ------------------------------------------------------------------ C2
\* C2 as stated: every variable with a defining operation is that operation's
\* output, every operation's output has that operation as its definer, and no
\* variable is the output of two operations at once.
C2_DefinerIsOutput ==
    /\ \A v \in vbank.live :
          vbank.def[v] # NullOp => obank.output[vbank.def[v]] = v
    /\ \A op \in obank.live :
          obank.output[op] # NullVn => vbank.def[obank.output[op]] = op
    /\ \A op1, op2 \in obank.live :
          (op1 # op2 /\ obank.output[op1] # NullVn) => obank.output[op1] # obank.output[op2]

\* ------------------------------------------------------------------ C7
\* The variables a step destroys.
Destroyed == vbank.live \ vbank'.live

\* C7 as stated: no IR-store operation ever destroys a variable that at that moment
\* has a defining operation or a non-empty reader list.
C7_DestroysOnlyUnreferenced ==
    [][\A v \in Destroyed : vbank.def[v] = NullOp /\ vbank.descend[v] = << >>]_vars

\* C7 amended: the dead-variable sweep destroys only variables that have no
\* defining operation and an empty reader list; destroy-op, destroy-raw and variable
\* destruction also destroy variables that have a definer or readers, and detach
\* them first, so that once a variable is destroyed no surviving operation holds it
\* in an input slot or as its output.
C7_DestroyDetachesFirst ==
    [][/\ last'.call = "clearDeadVarnodes"
            => \A v \in Destroyed : vbank.def[v] = NullOp /\ vbank.descend[v] = << >>
       /\ \A v \in Destroyed : \A op \in obank'.live :
            /\ v \notin Range(obank'.inrefs[op])
            /\ obank'.output[op] # v]_vars

\* Variable destruction has just been applied to a variable that had a definer or
\* a reader, and the variable is gone.
C7_Witness ==
    /\ last = [call |-> "destroyVarnode", case |-> "referenced"]
    /\ err = ""
    /\ \E v \in 1..vbank.count : v \notin vbank.live /\ v # 3

\* ------------------------------------------------------------------ C8
\* C8 as stated: destroy on an operation that is inserted in a basic block fails
\* with an invariant-violation error; the operation stays in its block.
C8_DestroyInBlockFails ==
    [][\A op \in obank.live :
          (obank.parent[op] # NoBlock /\ OpDestroyAct(op))
              => /\ err' # ""
                 /\ obank'.parent[op] = obank.parent[op]
                 /\ blocks' = blocks]_vars

\* C8 amended: destroy on an operation that is inserted in a basic block does not
\* fail: the operation is taken out of its block and moved to the dead list, with
\* its output destroyed and every input slot emptied.
C8_DestroyInBlockUninserts ==
    [][\A op \in obank.live :
          (obank.parent[op] # NoBlock /\ OpDestroyAct(op))
              => /\ err' = ""
                 /\ op \in obank'.live
                 /\ obank'.dead[op]
                 /\ obank'.parent[op] = NoBlock
                 /\ \A b \in BlockIds : op \notin Range(blocks'[b])
                 /\ obank'.output[op] = NullVn
                 /\ Range(obank'.inrefs[op]) \subseteq {NullVn}
                 /\ obank.output[op] # NullVn => obank.output[op] \notin vbank'.live]_vars

\* destroy has just been applied to an op that was in a block.
C8_Witness ==
    /\ last = [call |-> "opDestroy", case |-> "in-block"]
    /\ err = ""
    /\ \E op \in obank.live : obank.dead[op] /\ obank.parent[op] = NoBlock

\* ------------------------------------------------------------------ C9
\* set-output(op, vn) meets an existing binding: vn is the output of another op,
\* or op has another output.
BoundBefore(op, vn) ==
    /\ vn # obank.output[op]
    /\ (vbank.def[vn] # NullOp \/ obank.output[op] # NullVn)

\* C9 as stated: set-output(op, v) fails with an invariant-violation error whenever
\* an output binding already exists, and then no binding is changed.
C9_SetOutputBoundFails ==
    [][\A op \in obank.live : \A vn \in vbank.live :
          (BoundBefore(op, vn) /\ OpSetOutputAct(op, vn))
              => /\ err' # ""
                 /\ obank'.output = obank.output
                 /\ vbank'.def = vbank.def]_vars

\* C9 amended: set-output(op, v), with v neither an input nor a constant and v
\* either without definer or the output of its definer, does not fail when an
\* output binding already exists: it unbinds op's previous output (which stays in
\* the store, free) and unbinds v from its previous definer (which is left without
\* output), and then binds v as the output of op.
C9_SetOutputRebinds ==
    [][\A op \in obank.live : \A vn \in vbank.live :
          (/\ BoundBefore(op, vn)
           /\ vbank.flags[vn] \cap {"input", "constant"} = {}
           /\ (vbank.def[vn] = NullOp \/ obank.output[vbank.def[vn]] = vn)
           /\ OpSetOutputAct(op, vn))
              => /\ err' = ""
                 /\ obank'.output[op] = vn
                 /\ vbank'.def[vn] = op
                 /\ "written" \in vbank'.flags[vn]
                 /\ obank.output[op] # NullVn =>
                       /\ obank.output[op] \in vbank'.live
                       /\ vbank'.def[obank.output[op]] = NullOp
                       /\ "written" \notin vbank'.flags[obank.output[op]]
                 /\ (vbank.def[vn] # NullOp /\ vbank.def[vn] # op) =>
                       obank'.output[vbank.def[vn]] = NullVn]_vars

\* set-output has just rebound: it met an existing binding and did not fail.
C9_Witness ==
    /\ last = [call |-> "opSetOutput", case |-> "bound"]
    /\ err = ""
    /\ \E op \in obank.live :
          obank.output[op] # NullVn /\ vbank.def[obank.output[op]] = op

\* ------------------------------------------------------------------ C10
\* C10: unset-output on an operation whose output is v leaves v in the store as a
\* free variable (not destroyed) with its reader list unchanged and leaves the
\* operation without an output; on an operation with no output it changes nothing.
C10_UnsetOutputFrees ==
    [][\A op \in obank.live :
          OpUnsetOutputAct(op) =>
              IF obank.output[op] = NullVn
              THEN vbank' = vbank /\ obank' = obank /\ blocks' = blocks /\ err' = ""
              ELSE /\ err' = ""
                   /\ obank.output[op] \in vbank'.live
                   /\ vbank'.flags[obank.output[op]] \cap {"written", "input"} = {}
                   /\ vbank'.def[obank.output[op]] = NullOp
                   /\ vbank'.descend[obank.output[op]] = vbank.descend[obank.output[op]]
                   /\ obank'.output[op] = NullVn]_vars

\* unset-output has just detached an output that has a reader: the variable is
\* still in the store, free, and still read.
C10_Witness ==
    /\ last = [call |-> "opUnsetOutput", case |-> "output-read"]
    /\ \E v \in vbank.live :
          /\ vbank.def[v] = NullOp
          /\ vbank.flags[v] \cap {"written", "input"} = {}
          /\ vbank.descend[v] # << >>
          /\ \A op \in obank.live : obank.output[op] # v

\* --------------------------------------------------- alive and dead ops
NewOpAct(inputs) ==
    Step(newOp(Store, inputs), "newOp", "")

\* An op is given its opcode once, right after it is created.
OpSetOpcodeAct(op, opc) ==
    /\ obank.code[op] = "BLANK"
    /\ Step(opSetOpcode(Store, op, opc), "opSetOpcode", opc)

OpUnlinkAct(op) ==
    Step(opUnlink(Store, op), "opUnlink",
         IF obank.parent[op] # NoBlock THEN "in-block" ELSE "detached")

\* Only ops that have an opcode are inserted or linked.
Coded(op) == obank.code[op] # "BLANK"

NextLife ==
    \/ \E inputs \in 0..1 : NewOpAct(inputs)
    \/ \E op \in LiveOps, opc \in {"COPY", "RETURN"} : OpSetOpcodeAct(op, opc)
    \/ \E op \in LiveOps, bl \in BlockIds : Coded(op) /\ OpInsertBeginAct(op, bl)
    \/ \E op \in LiveOps, bl \in BlockIds : Coded(op) /\ OpInsertEndAct(op, bl)
    \/ \E op \in LiveOps : OpUninsertAct(op)
    \/ \E op \in LiveOps : OpUnlinkAct(op)
    \/ \E op \in LiveOps : OpDestroyAct(op)
    \/ \E op \in LiveOps : OpDestroyRawAct(op)
    \/ \E op \in LiveOps, vn \in FlowVns : \E slot \in Slots(op) :
          Coded(op) /\ OpSetInputAct(op, vn, slot)
    \/ \E op \in LiveOps, vn \in FlowVns : Coded(op) /\ OpSetOutputAct(op, vn)

\* One op made by newOp(1, pc) and given the opcode COPY; nothing inserted yet.
InitObankLife ==
    [live |-> {1},
     count |-> 1,
     code |-> [op \in 1..MaxOp |-> IF op = 1 THEN "COPY" ELSE "BLANK"],
     inrefs |-> [op \in 1..MaxOp |-> IF op = 1 THEN <<NullVn>> ELSE << >>],
     output |-> [op \in 1..MaxOp |-> NullVn],
     parent |-> [op \in 1..MaxOp |-> NoBlock],
     dead |-> [op \in 1..MaxOp |-> TRUE]]

\* One free register variable.
InitVbankLife ==
    [live |-> {1},
     count |-> 1,
     flags |-> [vn \in VnIds |-> {}],
     size |-> [vn \in VnIds |-> IF vn = 1 THEN 4 ELSE 0],
     offset |-> [vn \in VnIds |-> IF vn = 1 THEN 32 ELSE 0],
     def |-> [vn \in VnIds |-> NullOp],
     descend |-> [vn \in VnIds |-> << >>],
     iop |-> [vn \in VnIds |-> NullOp]]

InitLife ==
    /\ vbank = InitVbankLife
    /\ obank = InitObankLife
    /\ blocks = [b \in {1} |-> << >>]
    /\ err = ""
    /\ last = [call |-> "", case |-> ""]
    /\ walk = NoWalk
    /\ act = NoAct
    /\ srv = NoSrv
    /\ her = NoHer
    /\ fd = NoFd
    /\ mgr = NoMgr

SpecLife == InitLife /\ [][NextLife]_vars

\* ------------------------------------------------------------------ C11
\* The op is in the op list of exactly the block that owns it, once.
InOwnBlockOnly(ob, bls, op) ==
    \A b \in DOMAIN bls :
        Count(bls[b], op) = (IF ob.parent[op] = b THEN 1 ELSE 0)

\* C11: every op of the store is in exactly one of the alive and the dead list
\* (the list is the one its dead mark names), it is alive if and only if it has an
\* owning block, whose op list holds it once; an op that newOp has just made is
\* dead and detached; an op moves from dead to alive only in an insert and from
\* alive to dead only in un-insert, unlink or destroy.
C11_AliveIffOwned ==
    [][ /\ \A op \in obank'.live :
             /\ obank'.dead[op] \in BOOLEAN
             /\ ~obank'.dead[op] <=> obank'.parent[op] # NoBlock
             /\ InOwnBlockOnly(obank', blocks', op)
        /\ \A op \in obank'.live \ obank.live :
             obank'.dead[op] /\ obank'.parent[op] = NoBlock
        /\ \A op \in obank'.live \cap obank.live :
             /\ (obank.dead[op] /\ ~obank'.dead[op])
                   => last'.call \in {"opInsertBegin", "opInsertEnd"}
             /\ (~obank.dead[op] /\ obank'.dead[op])
                   => last'.call \in {"opUninsert", "opUnlink", "opDestroy"}
      ]_vars

\* An op that was inserted in a block has been un-inserted and is dead and
\* detached again, while a second op made by newOp is alive in the block.
C11_Witness ==
    /\ last.call = "opUninsert" /\ err = ""
    /\ obank.dead[1] /\ obank.parent[1] = NoBlock
    /\ \E op \in obank.live : op > 1 /\ ~obank.dead[op] /\ blocks[obank.parent[op]] = <<op>>

\* --------------------------------------------- comparison replacement
\* The arithmetic of replaceLessequal is done in intb, the widest signed integer;
\* operands have 1..IntbBytes bytes.  The model keeps the code's shape (operands
\* narrower than intb and operands as wide as intb) at a smaller scale.
IntbBits == ByteBits * IntbBytes
Sizes == 1..IntbBytes

\* calc_mask(size): all bits of a size-byte value.
calc_mask(size) == 2 ^ (ByteBits * size) - 1

\* sign_extend(val, bit): val with bit `bit` taken as the sign bit.
sign_extend(val, bit) == IF val >= 2 ^ bit THEN val - 2 ^ (bit + 1) ELSE val

\* val + diff in intb.  The sum of two intb that leaves the range of intb is
\* undefined: a build either wraps it around (wraps) or compiles the tests on it
\* as if the sum were exact.
intbAdd(val, diff, wraps) ==
    LET sum == val + diff
    IN IF wraps THEN sign_extend(sum % 2 ^ IntbBits, IntbBits - 1) ELSE sum

\* replaceLessequal that rewrites an unsigned comparison without the overflow tests.
replaceLessequal_NoUnsignedTest(data, op, wraps) ==
    IF ~isConstant(data, getIn(data, op, 1)) /\ ~isConstant(data, getIn(data, op, 2))
    THEN [data |-> data, ret |-> FALSE]
    ELSE LET i == IF isConstant(data, getIn(data, op, 1)) THEN 1 ELSE 2
             diff == IF i = 1 THEN -1 ELSE 1
             vn == getIn(data, op, i)
             val == sign_extend(data.vb.offset[vn], ByteBits * data.vb.size[vn] - 1)
             D1 == opSetOpcode(data, op, "INT_LESS")
             D2 == newConstant(D1, data.vb.size[vn], (val + diff) % (calc_mask(data.vb.size[vn]) + 1))
         IN [data |-> opSetInput(D2, op, newest(D2), i), ret |-> TRUE]

\* Funcdata::replaceLessequal; input slots are numbered from 1 here.
replaceLessequal(data, op, wraps) ==
    IF ~isConstant(data, getIn(data, op, 1)) /\ ~isConstant(data, getIn(data, op, 2))
    THEN [data |-> data, ret |-> FALSE]
    ELSE LET i == IF isConstant(data, getIn(data, op, 1)) THEN 1 ELSE 2
             diff == IF i = 1 THEN -1 ELSE 1
             vn == getIn(data, op, i)
             val == sign_extend(data.vb.offset[vn], ByteBits * data.vb.size[vn] - 1)
             sum == intbAdd(val, diff, wraps)
             signed == code(data, op) = "INT_SLESSEQUAL"
             refuse == IF signed
                       THEN (val < 0 /\ sum > 0) \/ (val > 0 /\ sum < 0)
                       ELSE (diff = -1 /\ val = 0) \/ (diff = 1 /\ val = -1)
             D1 == opSetOpcode(data, op, IF signed THEN "INT_SLESS" ELSE "INT_LESS")
             res == (val + diff) % (calc_mask(data.vb.size[vn]) + 1)
             D2 == newConstant(D1, data.vb.size[vn], res)
         IN IF refuse THEN [data |-> data, ret |-> FALSE]
            ELSE [data |-> opSetInput(D2, op, newest(D2), i), ret |-> TRUE]

\* The rule that calls replaceLessequal hands it the two less-or-equal opcodes.
ReplaceLessequalAct(op, wraps) ==
    /\ obank.code[op] \in {"INT_LESSEQUAL", "INT_SLESSEQUAL"}
    /\ LET r == replaceLessequal(Store, op, wraps)
       IN Step(r.data, "replaceLessequal", IF r.ret THEN "true" ELSE "false")

NextCmp == \E op \in LiveOps, wraps \in BOOLEAN : ReplaceLessequalAct(op, wraps)

\* One comparison op over v1, the variable x, and v2, a constant of the same size:
\* x <= #c, #c <= x, x <= x or #c <= #c, unsigned or signed.
InitCmp ==
    \E size \in Sizes : \E c \in 0..calc_mask(size) :
    \E opc \in {"INT_LESSEQUAL", "INT_SLESSEQUAL"} :
    \E ins \in {<<1, 2>>, <<2, 1>>, <<1, 1>>, <<2, 2>>} :
        /\ vbank = [live |-> {1, 2},
                    count |-> 2,
                    flags |-> [vn \in VnIds |-> CASE vn = 1 -> {"input"}
                                                  [] vn = 2 -> {"constant"}
                                                  [] OTHER -> {}],
                    size |-> [vn \in VnIds |-> IF vn <= 2 THEN size ELSE 0],
                    offset |-> [vn \in VnIds |-> CASE vn = 1 -> 16 [] vn = 2 -> c
                                                   [] OTHER -> 0],
                    def |-> [vn \in VnIds |-> NullOp],
                    descend |-> [vn \in VnIds |->
                                   IF vn <= 2 THEN [k \in 1..Count(ins, vn) |-> 1]
                                   ELSE << >>],
                    iop |-> [vn \in VnIds |-> NullOp]]
        /\ obank = [live |-> {1},
                    code |-> [op \in {1} |-> opc],
                    inrefs |-> [op \in {1} |-> ins],
                    output |-> [op \in {1} |-> NullVn],
                    parent |-> [op \in {1} |-> 1],
                    dead |-> [op \in {1} |-> FALSE]]
        /\ blocks = [b \in {1} |-> <<1>>]
        /\ err = ""
        /\ last = [call |-> "", case |-> ""]
        /\ walk = NoWalk
        /\ act = NoAct
        /\ srv = NoSrv
        /\ her = NoHer
        /\ fd = NoFd
        /\ mgr = NoMgr

SpecCmp == InitCmp /\ [][NextCmp]_vars

\* The value a comparison op reads in a slot when the variable x holds xval.
SlotValue(ob, vb, slot, xval) ==
    LET vn == ob.inrefs[1][slot]
    IN IF "constant" \in vb.flags[vn] THEN vb.offset[vn] ELSE xval

\* The truth value of the comparison op when the variable x holds xval.
Truth(ob, vb, xval) ==
    LET a == SlotValue(ob, vb, 1, xval)
        b == SlotValue(ob, vb, 2, xval)
        bit == ByteBits * vb.size[ob.inrefs[1][1]] - 1
        sa == sign_extend(a, bit)
        sb == sign_extend(b, bit)
    IN CASE ob.code[1] = "INT_LESSEQUAL" -> a <= b
         [] ob.code[1] = "INT_LESS" -> a < b
         [] ob.code[1] = "INT_SLESSEQUAL" -> sa <= sb
         [] ob.code[1] = "INT_SLESS" -> sa < sb

\* The step is a call of replaceLessequal on an op with the opcode opc and one
\* constant operand that returned true.
Rewrote(opc) ==
    /\ obank.code[1] = opc
    /\ \E slot \in 1..2 : "constant" \in vbank.flags[obank.inrefs[1][slot]]
    /\ last'.call = "replaceLessequal" /\ last'.case = "true"

SameTruth ==
    \A xval \in 0..calc_mask(vbank.size[1]) :
        Truth(obank, vbank, xval) = Truth(obank', vbank', xval)

\* ------------------------------------------------------------------ C12
\* C12: when replaceLessequal rewrites an unsigned INT_LESSEQUAL with a constant
\* operand and returns true, the op is an INT_LESS with the same truth value for
\* every value of x of the operand size; x <= #5 becomes x < #6.
C12_UnsignedRewriteKeepsTruth ==
    [][Rewrote("INT_LESSEQUAL") =>
         /\ obank'.code[1] = "INT_LESS"
         /\ SameTruth
         /\ (obank.inrefs[1][1] = 1 /\ vbank.offset[obank.inrefs[1][2]] = 5)
              => (obank'.inrefs[1][1] = 1 /\ vbank'.offset[obank'.inrefs[1][2]] = 6)
      ]_vars

\* x <= #5 has been rewritten into x < #6.
C12_Witness ==
    /\ last = [call |-> "replaceLessequal", case |-> "true"]
    /\ obank.code[1] = "INT_LESS"
    /\ obank.inrefs[1] = <<1, 3>> /\ vbank.offset[3] = 6 /\ vbank.offset[2] = 5

\* ------------------------------------------------------------------ C13
\* c + 1 (constant on the right) or c - 1 (constant on the left) is a value of
\* the signed range of the operand size.
NextRepresentable ==
    LET i == IF "constant" \in vbank.flags[obank.inrefs[1][1]] THEN 1 ELSE 2
        vn == obank.inrefs[1][i]
        bit == ByteBits * vbank.size[vn] - 1
        nxt == sign_extend(vbank.offset[vn], bit) + (IF i = 1 THEN -1 ELSE 1)
    IN -(2 ^ bit) <= nxt /\ nxt <= 2 ^ bit - 1

\* C13 as stated: when replaceLessequal rewrites a signed INT_SLESSEQUAL with a
\* constant operand and returns true, the op is an INT_SLESS with the same truth
\* value for every signed value of x of the operand size; when c + 1 (or c - 1) is
\* not representable in the signed range of the operand size the call returns
\* false and leaves the op unchanged.
C13_SignedRewriteKeepsTruth ==
    [][ /\ Rewrote("INT_SLESSEQUAL") => (obank'.code[1] = "INT_SLESS" /\ SameTruth)
        /\ ( /\ obank.code[1] = "INT_SLESSEQUAL"
             /\ \E slot \in 1..2 : "constant" \in vbank.flags[obank.inrefs[1][slot]]
             /\ last'.call = "replaceLessequal"
             /\ ~NextRepresentable )
           => (last'.case = "false" /\ obank' = obank /\ vbank' = vbank)
      ]_vars

\* ------------------------------------------------- AncestorRealistic
\* Varnode and PcodeOp properties the walk reads.
isWritten(F, vn) == F.vb.def[vn] # NullOp
isUnaffected(F, vn) == "unaffected" \in F.vb.flags[vn]
isPersist(F, vn) == "persist" \in F.vb.flags[vn]
isDirectWrite(F, vn) == "directwrite" \in F.vb.flags[vn]
isIndirectZero(F, vn) == "indirect_zero" \in F.vb.flags[vn]
isReturnAddress(F, vn) == "return_address" \in F.vb.flags[vn]
isIncidentalCopy(F, vn) == "incidental_copy" \in F.vb.flags[vn]
isInternal(F, vn) == "internal" \in F.vb.flags[vn]
getAddr(F, vn) == <<isInternal(F, vn), F.vb.offset[vn]>>
isIndirectCreation(F, op) == "indirect_creation" \in F.ob.flags[op]
isCall(F, op) == code(F, op) \in {"CALL", "CALLIND", "CALLOTHER"}

\* AncestorRealistic::State(o, s)
NewState(F, o, s) == [op |-> o, vn |-> getIn(F, o, s), slot |-> s, flags |-> {}, got |-> << >>]

\* State::markSolid, markKill, seenSolid, seenKill, getSolidSlot (slots from 1).
markSolid(st, slot) ==
    [st EXCEPT !.flags = @ \cup {IF slot = 1 THEN "seen_solid0" ELSE "seen_solid1"}]
markKill(st) == [st EXCEPT !.flags = @ \cup {"seen_kill"}]
seenSolid(st) == st.flags \cap {"seen_solid0", "seen_solid1"} # {}
seenKill(st) == "seen_kill" \in st.flags
getSolidSlot(st) == IF "seen_solid0" \in st.flags THEN 1 ELSE 2

\* AncestorRealistic::checkConditionalExe
checkConditionalExe(F, state) ==
    LET bl == F.bl[getParent(F, state.op)]
    IN IF bl.sizeIn # 2 THEN FALSE
       ELSE bl.inSizeOut[getSolidSlot(state)] = 1

\* The walker: the traversal stack, the pending command, the visited variables,
\* the MULTIEQUAL depth, the flags of the trial, and a record of what each
\* MULTIEQUAL got from its inputs and passed on when it was popped.
Push(W, st) == [W EXCEPT !.stack = Append(@, st)]
Pop(W) == [W EXCEPT !.stack = SubSeq(@, 1, Len(@) - 1)]
Top(W) == W.stack[Len(W.stack)]

\* enterNode, the minimal traversal below a COPY that moves a value.
RECURSIVE copyChain(_, _, _)
copyChain(F, W, op) ==
    LET vn == getIn(F, op, 1)
        nextop == getDef(F, vn)
    IN IF vn \notin W.marks /\ isInput(F, vn)
          /\ (isUnaffected(F, vn) \/ ~isDirectWrite(F, vn))
       THEN "pop_fail"
       ELSE IF nextop # NullOp /\ code(F, nextop) \in {"COPY", "SUBPIECE"}
       THEN copyChain(F, W, nextop)
       ELSE "pop_solid"

Cmd(W, c) == [W EXCEPT !.cmd = c]

\* mark that sets the variable's mark and does not note it for the clean-up.
mark_NotNoted(W, vn) == [W EXCEPT !.marks = @ \cup {vn}]

\* AncestorRealistic::mark: marks holds the variables whose mark is set,
\* markedVn the variables noted for the clean-up.
mark(W, vn) == [W EXCEPT !.marks = @ \cup {vn}, !.markedVn = Append(@, vn)]

\* AncestorRealistic::execute, the clean-up of the marks left along the way
clearMarks(W) == [W EXCEPT !.marks = @ \ Range(W.markedVn)]

\* AncestorRealistic::enterNode on the top of the stack
enterNode(F, W) ==
    LET vn == Top(W).vn
        op == getDef(F, vn)
        M == mark(W, vn)
    IN IF vn \in W.marks THEN Cmd(W, "pop_success")
       ELSE IF ~isWritten(F, vn)
       THEN IF ~isInput(F, vn) THEN Cmd(W, "pop_success")
            ELSE IF isUnaffected(F, vn) THEN Cmd(W, "pop_fail")
            ELSE IF isPersist(F, vn) THEN Cmd(W, "pop_success")
            ELSE IF ~isDirectWrite(F, vn) THEN Cmd(W, "pop_fail")
            ELSE Cmd(W, "pop_success")
       ELSE CASE code(F, op) = "INDIRECT" ->
                 IF isIndirectCreation(F, op)
                 THEN LET T == [M EXCEPT !.trial = @ \cup {"indcreate_formed"}]
                      IN IF isIndirectZero(F, getIn(F, op, 1))
                         THEN Cmd(T, "pop_failkill")
                         ELSE Cmd(T, "pop_success")
                 ELSE IF isCall(F, getOpFromConst(F, getIn(F, op, 2)))
                         /\ (isReturnAddress(F, getOut(F, op)) \/ "killedbycall" \in M.trial)
                      THEN Cmd(M, "pop_fail")
                      ELSE Cmd(Push(M, NewState(F, op, 1)), "enter_node")
              [] code(F, op) \in {"SUBPIECE", "COPY"} ->
                 IF \/ isInternal(F, getOut(F, op))
                    \/ getAddr(F, getOut(F, op)) = getAddr(F, getIn(F, op, 1))
                    \/ isIncidentalCopy(F, getIn(F, op, 1))
                 THEN Cmd(Push(M, NewState(F, op, 1)), "enter_node")
                 ELSE Cmd(M, copyChain(F, M, op))
              [] code(F, op) = "MULTIEQUAL" ->
                 Cmd(Push([M EXCEPT !.multiDepth = @ + 1], NewState(F, op, 1)), "enter_node")
              [] OTHER -> Cmd(M, "pop_solid")

\* The MULTIEQUAL result that lets a solid input override a kill unconditionally.
multiequalResult_IgnoresKill(F, W, prevstate, state) ==
    IF seenSolid(prevstate) THEN "pop_success"
    ELSE IF seenKill(prevstate) THEN "pop_failkill"
    ELSE "pop_success"

\* uponPop, the command a MULTIEQUAL passes on once all its inputs are traversed;
\* prevstate is the state below it, state its own.
multiequalResult(F, W, prevstate, state) ==
    IF seenSolid(prevstate)
    THEN IF seenKill(prevstate)
         THEN IF W.allowFailingPath /\ checkConditionalExe(F, state)
              THEN "pop_success" ELSE "pop_fail"
         ELSE "pop_success"
    ELSE IF seenKill(prevstate) THEN "pop_failkill"
    ELSE "pop_success"

\* AncestorRealistic::uponPop on the top of the stack
uponPop(F, W, pop_command) ==
    LET n == Len(W.stack)
        state == [Top(W) EXCEPT !.got = Append(@, pop_command)]
    IN IF code(F, state.op) # "MULTIEQUAL" THEN Cmd(Pop(W), pop_command)
       ELSE IF pop_command = "pop_fail"
       THEN Cmd(Pop([W EXCEPT !.multiDepth = @ - 1,
                              !.log = Append(@, [op |-> state.op, got |-> state.got,
                                                 out |-> "pop_fail",
                                                 depth |-> W.multiDepth])]),
                "pop_fail")
       ELSE LET prevstate ==
                  IF pop_command = "pop_solid" /\ W.multiDepth = 1
                     /\ numInput(F, state.op) = 2
                  THEN markSolid(W.stack[n - 1], state.slot)
                  ELSE IF pop_command = "pop_failkill" THEN markKill(W.stack[n - 1])
                  ELSE W.stack[n - 1]
                W1 == [W EXCEPT !.stack[n - 1] = prevstate]
            IN IF state.slot = numInput(F, state.op)
               THEN LET res == multiequalResult(F, W1, prevstate, state)
                        W2 == IF seenSolid(prevstate) /\ seenKill(prevstate) /\ res = "pop_success"
                              THEN [W1 EXCEPT !.trial = @ \cup {"condexe_effect"}]
                              ELSE W1
                    IN Cmd(Pop([W2 EXCEPT !.multiDepth = @ - 1,
                                          !.log = Append(@, [op |-> state.op,
                                                             got |-> state.got,
                                                             out |-> res,
                                                             depth |-> W.multiDepth])]),
                           res)
               ELSE Cmd([W1 EXCEPT !.stack[n] =
                            [state EXCEPT !.slot = @ + 1,
                                          !.vn = getIn(F, state.op, state.slot + 1)]],
                        "enter_node")

\* AncestorRealistic::execute, the traversal loop
RECURSIVE traverse(_, _)
traverse(F, W) ==
    IF W.stack = << >> THEN W
    ELSE IF W.cmd = "enter_node" THEN traverse(F, enterNode(F, W))
    ELSE traverse(F, uponPop(F, W, W.cmd))

\* execute that takes a killed-by-call path for a realistic ancestor.
execute_AcceptsKill(F, op, slot, t, allowFail) ==
    LET W0 == [stack |-> << >>, cmd |-> "enter_node", marks |-> {}, markedVn |-> << >>,
               multiDepth |-> 0, trial |-> t, allowFailingPath |-> allowFail, log |-> << >>]
        W == traverse(F, Push(W0, NewState(F, op, slot)))
    IN clearMarks(W)
       @@ [ret |-> W.cmd \in {"pop_success", "pop_solid", "pop_failkill"}]

\* AncestorRealistic::execute(op, slot, t, allowFail): the walker after the
\* traversal and whether the trial's variable has realistic ancestors.
execute(F, op, slot, t, allowFail) ==
    LET W0 == [stack |-> << >>, cmd |-> "enter_node", marks |-> {}, markedVn |-> << >>,
               multiDepth |-> 0, trial |-> t, allowFailingPath |-> allowFail, log |-> << >>]
    IN IF isInput(F, getIn(F, op, slot)) /\ "condexe_effect" \notin t
       THEN [W0 EXCEPT !.cmd = "none"] @@ [ret |-> FALSE]
       ELSE LET W == traverse(F, Push(W0, NewState(F, op, slot)))
            IN clearMarks(W) @@ [ret |-> W.cmd \in {"pop_success", "pop_solid"}]

\* The data-flow graphs the walk is run on.  Variable i of 1..MaxNode is
\*   "free"        not written, not an input
\*   "unaffected"  an input the call convention leaves unaffected
\*   "kill"        written by an indirect-creation INDIRECT whose input is the
\*                 indirect-zero constant: another call's killed-by-call placeholder
\*   "load"        written by a LOAD
\*   "thru"        a temporary written by a COPY of a later variable
\*   "move"        a register written by a COPY of a later variable
\*   "multi"       written by a MULTIEQUAL of two or three variables (itself and
\*                 later ones: data-flow loops go through a MULTIEQUAL)
\*   "indirect"    written by an INDIRECT that carries a variable across the
\*                 other call (only in the graphs with loops, further down)
\* Variable 1 is the trial: input slot 2 of the CALL under test.
NodeIds == 1..MaxNode
ZeroVn == MaxNode + 1        \* the indirect-zero constant
PcVn == MaxNode + 2          \* the annotation naming the other call
CallOp == MaxNode + 1        \* the CALL under test
KillerCall == MaxNode + 2    \* the call the placeholders belong to

Shapes(i) ==
    {[k |-> kind, in |-> << >>] : kind \in {"free", "unaffected", "kill", "load"}}
    \cup {[k |-> kind, in |-> <<j>>] : kind \in {"thru", "move"}, j \in i + 1..MaxNode}
    \cup {[k |-> "multi", in |-> <<a, b>>] : a \in i..MaxNode, b \in i..MaxNode}
    \cup {[k |-> "multi", in |-> t] :
             t \in {u \in (i..MaxNode) \X (i..MaxNode) \X (i..MaxNode) :
                      u[1] <= u[2] /\ u[2] <= u[3]}}

RECURSIVE Graphs(_)
Graphs(i) ==
    IF i > MaxNode THEN {<< >>}
    ELSE {<<sh>> \o rest : sh \in Shapes(i), rest \in Graphs(i + 1)}

\* The variables of g the trial depends on.
RECURSIVE DependsOn(_, _)
DependsOn(g, S) ==
    LET T == S \cup UNION {Range(g[i].in) : i \in S}
    IN IF T = S THEN S ELSE DependsOn(g, T)

\* The graphs without variables the trial does not depend on (such a variable is
\* left "free": the walk never meets it).
TrialGraphs ==
    {g \in Graphs(1) : \A i \in NodeIds \ DependsOn(g, {1}) : g[i].k = "free"}

Written(g, i) == i \in NodeIds /\ g[i].k \in {"kill", "load", "thru", "move", "multi", "indirect"}

GraphInrefs(g, op) ==
    CASE op = CallOp -> <<PcVn, 1>>
      [] op = KillerCall -> <<PcVn>>
      [] g[op].k = "kill" -> <<ZeroVn, PcVn>>
      [] OTHER -> g[op].in

\* The reader list of vn: every op once for each slot that holds vn.
RECURSIVE GraphReaders(_, _, _)
GraphReaders(g, vn, op) ==
    IF op > KillerCall THEN << >>
    ELSE (IF op \in NodeIds /\ ~Written(g, op) THEN << >>
          ELSE [k \in 1..Count(GraphInrefs(g, op), vn) |-> op])
         \o GraphReaders(g, vn, op + 1)

GraphVbank(g) ==
    [live |-> 1..PcVn,
     count |-> PcVn,
     flags |-> [vn \in 1..PcVn |->
                  CASE vn = ZeroVn -> {"constant", "indirect_zero"}
                    [] vn = PcVn -> {"annotation"}
                    [] g[vn].k = "free" -> {}
                    [] g[vn].k = "unaffected" -> {"input", "unaffected"}
                    [] g[vn].k = "kill" -> {"written", "indirect_creation"}
                    [] g[vn].k = "thru" -> {"written", "internal"}
                    [] OTHER -> {"written"}],
     size |-> [vn \in 1..PcVn |-> 4],
     offset |-> [vn \in 1..PcVn |-> IF vn = ZeroVn THEN 0 ELSE 16 * vn],
     def |-> [vn \in 1..PcVn |-> IF Written(g, vn) THEN vn ELSE NullOp],
     descend |-> [vn \in 1..PcVn |-> GraphReaders(g, vn, 1)],
     iop |-> [vn \in 1..PcVn |-> IF vn = PcVn THEN KillerCall ELSE NullOp]]

GraphObank(g) ==
    [live |-> {op \in NodeIds : Written(g, op)} \cup {CallOp, KillerCall},
     code |-> [op \in 1..KillerCall |->
                 CASE op \in {CallOp, KillerCall} -> "CALL"
                   [] g[op].k \in {"kill", "indirect"} -> "INDIRECT"
                   [] g[op].k = "load" -> "LOAD"
                   [] g[op].k \in {"thru", "move"} -> "COPY"
                   [] g[op].k = "multi" -> "MULTIEQUAL"
                   [] OTHER -> "BLANK"],
     flags |-> [op \in 1..KillerCall |->
                  IF op \in NodeIds /\ g[op].k = "kill" THEN {"indirect_creation"} ELSE {}],
     inrefs |-> [op \in 1..KillerCall |->
                   IF op \in NodeIds /\ ~Written(g, op) THEN << >> ELSE GraphInrefs(g, op)],
     output |-> [op \in 1..KillerCall |-> IF Written(g, op) THEN op ELSE NullVn],
     parent |-> [op \in 1..KillerCall |-> op],
     dead |-> [op \in 1..KillerCall |-> FALSE]]

\* Every op is in a block of its own; the block of a MULTIEQUAL has one incoming
\* edge for each input, from a block with sizeOut outgoing edges.
GraphBlocks(g, sizeOut) ==
    [b \in 1..KillerCall |->
       LET n == IF b \in NodeIds /\ g[b].k = "multi" THEN Len(g[b].in) ELSE 1
       IN [ops |-> <<b>>, sizeIn |-> n, inSizeOut |-> [k \in 1..n |-> sizeOut]]]

InitWalk ==
    \E g \in TrialGraphs, sizeOut \in 1..2 :
        /\ vbank = GraphVbank(g)
        /\ obank = GraphObank(g)
        /\ blocks = GraphBlocks(g, sizeOut)
        /\ err = ""
        /\ last = [call |-> "", case |-> ""]
        /\ walk = [phase |-> "ready"]
        /\ act = NoAct
        /\ srv = NoSrv
        /\ her = NoHer
        /\ fd = NoFd
        /\ mgr = NoMgr

\* The ancestry walk is run on the trial of the CALL under test.
ExecuteAct(allowFail) ==
    /\ walk.phase = "ready"
    /\ LET W == execute(Store, CallOp, 2, {}, allowFail)
       IN /\ walk' = [phase |-> "done", ret |-> W.ret, trial |-> W.trial,
                      allowFailingPath |-> allowFail, log |-> W.log,
                      marks |-> W.marks, stack |-> W.stack]
          /\ last' = [call |-> "execute", case |-> IF W.ret THEN "true" ELSE "false"]
    /\ UNCHANGED <<vbank, obank, blocks, err, act, srv, her, fd, mgr>>

NextWalk == \E allowFail \in BOOLEAN : ExecuteAct(allowFail)

SpecWalk == InitWalk /\ [][NextWalk]_vars

\* ------------------------------------------------------------------ C14
\* The placeholder of a call: written by an indirect-creation INDIRECT whose
\* input is the indirect-zero constant.
IsKill(vn) ==
    /\ vbank.def[vn] # NullOp
    /\ obank.code[vbank.def[vn]] = "INDIRECT"
    /\ "indirect_creation" \in obank.flags[vbank.def[vn]]
    /\ "indirect_zero" \in vbank.flags[obank.inrefs[vbank.def[vn]][1]]

\* A variable the walk only passes through: a MULTIEQUAL output or a copy into
\* a temporary.
IsPassThrough(vn) ==
    /\ vbank.def[vn] # NullOp
    /\ \/ obank.code[vbank.def[vn]] = "MULTIEQUAL"
       \/ obank.code[vbank.def[vn]] = "COPY" /\ "internal" \in vbank.flags[vn]

\* The variables the trial traces back to: the trial, and the inputs of the
\* definer of every pass-through variable among them.
RECURSIVE TraceBack(_)
TraceBack(S) ==
    LET T == S \cup UNION {Range(obank.inrefs[vbank.def[vn]]) : vn \in {v \in S : IsPassThrough(v)}}
    IN IF T = S THEN S ELSE TraceBack(T)

Trial == obank.inrefs[CallOp][2]

\* Every path back from the trial ends in a placeholder and none holds a solid move.
TracesOnlyToKill ==
    /\ \A vn \in TraceBack({Trial}) : IsKill(vn) \/ IsPassThrough(vn)
    /\ \E vn \in TraceBack({Trial}) : IsKill(vn)

\* C14: when the trial of the CALL traces back only to killed-by-call
\* placeholders, with no solid move on any path, execute returns false.
C14_KillOnlyRejected ==
    (walk.phase = "done" /\ TracesOnlyToKill) => walk.ret = FALSE

\* The walk has rejected a trial that reaches placeholders through a MULTIEQUAL.
C14_Witness ==
    /\ walk.phase = "done" /\ TracesOnlyToKill /\ ~walk.ret
    /\ obank.code[vbank.def[Trial]] = "MULTIEQUAL"
    /\ walk.log # << >>

\* ------------------------------------------------------------------ C15
LogEntries == {walk.log[k] : k \in 1..Len(walk.log)}

\* C15 as stated: at a MULTIEQUAL the walk visits every input, accepts through
\* it only if at least one input path was solid, and tolerates an input path that
\* ends in a kill only when another input path of the same MULTIEQUAL is solid,
\* rejecting otherwise.
C15_MultiequalNeedsSolid ==
    walk.phase = "done" =>
      \A e \in LogEntries :
         /\ Len(e.got) = Len(obank.inrefs[e.op])
         /\ e.out = "pop_success" => "pop_solid" \in Range(e.got)
         /\ ("pop_failkill" \in Range(e.got) /\ "pop_solid" \notin Range(e.got))
              => e.out \in {"pop_fail", "pop_failkill"}

\* C15 as the code has it: the inputs are visited in slot order up to the first
\* path that fails outright, and that failure is passed on at once; a MULTIEQUAL
\* is accepted with a kill among its input paths only if another input path was
\* solid, it has two inputs, it is the outermost MULTIEQUAL of the path, failing
\* paths are allowed and the conditional-execution test marked the trial; an
\* outermost MULTIEQUAL whose input paths neither fail nor end in a kill is
\* accepted whether or not one of them was solid.
C15_MultiequalKillNeedsSolid ==
    walk.phase = "done" =>
      \A e \in LogEntries :
         LET n == Len(e.got)
         IN /\ \A k \in 1..n - 1 : e.got[k] # "pop_fail"
            /\ n = Len(obank.inrefs[e.op]) \/ e.got[n] = "pop_fail"
            /\ e.got[n] = "pop_fail" => e.out = "pop_fail"
            /\ (e.out = "pop_success" /\ "pop_failkill" \in Range(e.got))
                 => /\ "pop_solid" \in Range(e.got)
                    /\ Len(obank.inrefs[e.op]) = 2
                    /\ e.depth = 1
                    /\ walk.allowFailingPath
                    /\ "condexe_effect" \in walk.trial
            /\ (e.depth = 1 /\ Range(e.got) \subseteq {"pop_success", "pop_solid"})
                 => e.out = "pop_success"

\* A MULTIEQUAL got a kill from its first input and a solid move from its second
\* and was accepted.
C15_Witness ==
    /\ walk.phase = "done" /\ walk.ret
    /\ \E e \in LogEntries : e.got = <<"pop_failkill", "pop_solid">> /\ e.out = "pop_success"

\* ------------------------------------------------------ action pipeline
\* The root action is a restart group (ActionRestartGroup) over MaxSub leaf
\* sub-actions.  act holds
\*   phase     "idle" (no application under way), "running" (inside apply),
\*             "break" (apply returned -1), "done" (apply returned 0),
\*             "failed" (restart-exhausted)
\*   state     the sub-action up for application (ActionGroup::state)
\*   status    the status of every sub-action (Action::status)
\*   brk       the breakpoints of every sub-action (Action::breakpoint)
\*   curstart  the restarts made so far (ActionRestartGroup::curstart)
\*   pending   the function's restart-pending flag (Funcdata::restart_pending)
\*   ran       how often the body of every sub-action has run in the current
\*             application of the group (reset or restart begins a new one)
\*   reruns    how often the group has been re-run for the function
SubIds == 1..MaxSub
BreakKinds == {"break_start", "tmpbreak_start", "break_action", "tmpbreak_action"}
\* The breakpoints that get set: a one-shot break on entry, a persistent break on change.
SetKinds == {"tmpbreak_start", "break_action"}

\* Funcdata::setRestartPending, hasRestartPending
setRestartPending(a, val) == [a EXCEPT !.pending = val]
hasRestartPending(a) == a.pending

\* Action::checkStartBreak / checkActionBreak of sub-action i: whether a break
\* fires, and the breakpoints left (a one-shot break is used up).
checkStartBreak(a, i) == a.brk[i] \cap {"break_start", "tmpbreak_start"} # {}
checkActionBreak(a, i) == a.brk[i] \cap {"break_action", "tmpbreak_action"} # {}
clearTmpStart(a, i) == [a EXCEPT !.brk[i] = @ \ {"tmpbreak_start"}]
clearTmpAction(a, i) == [a EXCEPT !.brk[i] = @ \ {"tmpbreak_action"}]

\* Action::reset of every sub-action and of the group.
resetGroup(a) ==
    [a EXCEPT !.status = [i \in SubIds |-> "status_start"],
              !.state = 1,
              !.ran = [i \in SubIds |-> 0]]

\* The body of sub-action i runs once: it may report a change and may ask for a
\* restart of the analysis.
runBody(a, i, request) ==
    LET b == [a EXCEPT !.ran[i] = @ + 1]
    IN IF request THEN setRestartPending(b, TRUE) ELSE b

\* apply returns -1: the application is interrupted at sub-action a.state.
breakOut(a) == [a EXCEPT !.phase = "break", !.breaks = @ + 1]

\* perform that runs the body again when it resumes after a break on change.
performSub_RerunsStopped(a, changed, request) ==
    LET i == a.state
        done == [runBody(a, i, request) EXCEPT !.status[i] = "status_start", !.state = i + 1]
    IN IF a.status[i] = "status_start" /\ checkStartBreak(a, i)
       THEN breakOut(clearTmpStart([a EXCEPT !.status[i] = "status_breakstarthit"], i))
       ELSE IF changed /\ a.status[i] # "status_actionbreak" /\ checkActionBreak(a, i)
       THEN breakOut(clearTmpAction([runBody(a, i, request)
                                       EXCEPT !.status[i] = "status_actionbreak"], i))
       ELSE done

\* Action::perform of the sub-action up for application, as the group calls it.
\*   status_start          a break on entry stops before the body runs
\*   status_breakstarthit  resumed after that break: the body runs now
\*   status_actionbreak    resumed after a break on change: the body has run,
\*                         the group goes on to the next sub-action
performSub(a, changed, request) ==
    LET i == a.state
    IN IF a.status[i] = "status_start" /\ checkStartBreak(a, i)
       THEN breakOut(clearTmpStart([a EXCEPT !.status[i] = "status_breakstarthit"], i))
       ELSE IF a.status[i] = "status_actionbreak"
       THEN [a EXCEPT !.status[i] = "status_start", !.state = i + 1]
       ELSE IF changed /\ checkActionBreak(a, i)
       THEN breakOut(clearTmpAction([runBody(a, i, request)
                                       EXCEPT !.status[i] = "status_actionbreak"], i))
       ELSE [runBody(a, i, request) EXCEPT !.status[i] = "status_start", !.state = i + 1]

\* The restart group that re-runs whenever a restart is pending.
restartGroupReturn_NoLimit(a) ==
    IF ~hasRestartPending(a) THEN [a EXCEPT !.phase = "done"]
    ELSE resetGroup([setRestartPending(a, FALSE)
                       EXCEPT !.curstart = @ + 1, !.reruns = @ + 1, !.breaks = 0])

\* ActionRestartGroup::apply once the group application has returned 0.
restartGroupReturn(a) ==
    IF ~hasRestartPending(a) THEN [a EXCEPT !.phase = "done"]
    ELSE IF a.curstart < MaxRestarts
    THEN resetGroup([setRestartPending(a, FALSE)
                       EXCEPT !.curstart = @ + 1, !.reruns = @ + 1, !.breaks = 0])
    ELSE [a EXCEPT !.phase = "failed", !.error = "restart-exhausted"]

\* The driver resets the root action for a function and performs it.
StartAct ==
    /\ act.phase \in {"idle", "done", "failed"}
    /\ act' = resetGroup([act EXCEPT !.phase = "running", !.curstart = 0, !.reruns = 0,
                                     !.pending = FALSE, !.breaks = 0, !.error = ""])
    /\ UNCHANGED <<vbank, obank, blocks, err, last, walk, srv, her, fd, mgr>>

PerformSubAct(changed, request) ==
    /\ act.phase = "running" /\ act.state \in SubIds
    /\ act' = performSub(act, changed, request)
    /\ UNCHANGED <<vbank, obank, blocks, err, last, walk, srv, her, fd, mgr>>

GroupReturnAct ==
    /\ act.phase = "running" /\ act.state = MaxSub + 1
    /\ act' = restartGroupReturn(act)
    /\ UNCHANGED <<vbank, obank, blocks, err, last, walk, srv, her, fd, mgr>>

\* After apply returned -1 the caller performs the root action again.
ResumeAct ==
    /\ act.phase = "break"
    /\ act' = [act EXCEPT !.phase = "running"]
    /\ UNCHANGED <<vbank, obank, blocks, err, last, walk, srv, her, fd, mgr>>

\* Action::setBreakPoint on a sub-action, between two calls of apply.
SetBreakPointAct(i, tp) ==
    /\ act.phase \in {"idle", "break", "done", "failed"}
    /\ tp \notin act.brk[i]
    /\ act' = [act EXCEPT !.brk[i] = @ \cup {tp}]
    /\ UNCHANGED <<vbank, obank, blocks, err, last, walk, srv, her, fd, mgr>>

PipelineStep ==
    \/ \E changed, request \in BOOLEAN : PerformSubAct(changed, request)
    \/ GroupReturnAct

NextAct ==
    \/ StartAct
    \/ \E changed, request \in BOOLEAN : PerformSubAct(changed, request)
    \/ GroupReturnAct
    \/ ResumeAct
    \/ \E i \in SubIds, tp \in SetKinds : SetBreakPointAct(i, tp)

InitAct ==
    /\ vbank = InitVbankLife
    /\ obank = InitObankLife
    /\ blocks = [b \in {1} |-> << >>]
    /\ err = ""
    /\ last = [call |-> "", case |-> ""]
    /\ walk = NoWalk
    /\ srv = NoSrv
    /\ her = NoHer
    /\ fd = NoFd
    /\ mgr = NoMgr
    /\ act = [phase |-> "idle", state |-> 1,
              status |-> [i \in SubIds |-> "status_start"],
              brk |-> [i \in SubIds |-> {}],
              curstart |-> 0, pending |-> FALSE,
              ran |-> [i \in SubIds |-> 0], reruns |-> 0, breaks |-> 0, error |-> ""]

\* Once inside apply, the pipeline keeps taking steps until apply returns.
SpecAct == InitAct /\ [][NextAct]_vars /\ WF_vars(PipelineStep)

\* ------------------------------------------------------------------ C16
\* C16: the restart group re-runs its group only on observing the restart-pending
\* flag after a group application, clearing the flag; it never re-runs more than
\* maxrestarts times; a restart pending beyond that makes it fail with
\* restart-exhausted instead of re-running; and every apply returns, even if every
\* run asks for a restart.
C16_RestartsBounded ==
    /\ [](act.reruns <= MaxRestarts)
    /\ [][(act.phase = "running" /\ act'.reruns # act.reruns)
            => /\ act.state = MaxSub + 1 /\ act.pending
               /\ ~act'.pending /\ act'.reruns = act.reruns + 1
               /\ act'.state = 1 /\ act'.phase = "running"]_vars
    /\ [][(act.phase = "running" /\ act.state = MaxSub + 1 /\ act.pending
             /\ act.reruns = MaxRestarts)
            => (act'.phase = "failed" /\ act'.error = "restart-exhausted"
                /\ act'.reruns = act.reruns)]_vars
    /\ (act.phase = "running") ~> (act.phase # "running")

\* The group was re-run maxrestarts times and the action failed on one more
\* pending restart.
C16_Witness ==
    act.phase = "failed" /\ act.error = "restart-exhausted" /\ act.reruns = MaxRestarts

\* ------------------------------------------------------------------ C17
\* C17: when a breakpoint fires, apply returns -1; applying again runs no body
\* that already ran in the interrupted application, the stopped sub-action
\* included, and when the application completes with 0 every sub-action has run
\* exactly once.
C17_ResumeRunsNothingTwice ==
    /\ \A i \in SubIds : act.ran[i] <= 1
    /\ act.phase = "break" =>
         \A i \in SubIds : act.ran[i] = (IF i < act.state \/ (i = act.state /\ act.status[i] = "status_actionbreak") THEN 1 ELSE 0)
    /\ act.phase = "done" => \A i \in SubIds : act.ran[i] = 1

\* An application that was interrupted by a break on change and by a break on
\* entry has completed with 0.
C17_Witness ==
    /\ act.phase = "done" /\ act.breaks >= 2
    /\ \A i \in SubIds : act.ran[i] = 1

\* ---------------------------------------------------------------------------
\* The command surface: the commands of ghidra_process.cc, read one at a time by
\* the main loop, each run by GhidraCommand::doit.
\* ---------------------------------------------------------------------------

NullArch == 0       \* (ArchitectureGhidra *)0
NullAction == ""    \* (Action *)0; a root action is named by the name it is registered under

ArchIds == 1..MaxArch

CommandNames == {"registerProgram", "deregisterProgram", "decompileAt", "setAction"}

\* The names root actions are registered under.
RootNames == {"decompile", "paramid"}

\* An exception in flight: none, or its class with the type and explanation it carries.
NoThrow == [class |-> "none", type |-> "", explain |-> ""]

JavaError(tp, explain) == [class |-> "JavaError", type |-> tp, explain |-> explain]

LowlevelError(explain) == [class |-> "LowlevelError", type |-> "", explain |-> explain]

XmlError(explain) == [class |-> "XmlError", type |-> "", explain |-> explain]

RecovError(explain) == [class |-> "RecovError", type |-> "", explain |-> explain]

\* What a callee that is not modelled does in one call: nothing, or a throw of a
\* given class at a given place.
NoFault == [at |-> "none", class |-> "none"]

FaultThrow(f) ==
    IF f.class = "XmlError" THEN XmlError("fault")
    ELSE IF f.class = "RecovError" THEN RecovError("fault")
    ELSE LowlevelError("fault")

\* ---- ActionDatabase ----

ActionDatabase == [currentact |-> NullAction, currentactname |-> ""]

getCurrent(db) == db.currentact

getCurrentName(db) == db.currentactname

\* The current root action becomes the root registered under actname.
setCurrent(db, actname) == [currentact |-> actname, currentactname |-> actname]

\* ---- Architecture ----

\* The functions of a program that a client asks for.
FuncIds == {"f", "g"}

NewArchitecture ==
    [allacts |-> ActionDatabase, warnings |-> << >>, sendsyntaxtree |-> FALSE,
     alive |-> TRUE,
     rootstatus |-> [r \in RootNames |-> "status_start"],
     funcs |-> [fn \in FuncIds |-> "new"]]

\* Action::reset: the root action is back at its start.
reset(arch, root) == [arch EXCEPT !.rootstatus[root] = "status_start"]

\* Action::perform on a function: from its start the root action analyses the whole
\* function, or stops where a sub-action throws; from anywhere else it goes on from
\* where it stood and the function misses what came before.
perform(arch, root, fn, throws) ==
    [arch EXCEPT !.rootstatus[root] = IF throws THEN "status_mid" ELSE "status_end",
                 !.funcs[fn] = IF throws THEN "started"
                               ELSE IF arch.rootstatus[root] = "status_start" THEN "complete"
                               ELSE "corrupt"]

isProcStarted(arch, fn) == arch.funcs[fn] # "new"

isProcComplete(arch, fn) == arch.funcs[fn] \in {"complete", "corrupt"}

buildAction(arch) == [arch EXCEPT !.allacts = setCurrent(@, "decompile")]

\* init: the steps before restoreFromSpec reaches buildAction, buildAction, the steps
\* after it. A step that is not modelled may throw.
init(arch, fault) ==
    IF fault.at = "early" THEN [arch |-> arch, thrown |-> FaultThrow(fault)]
    ELSE LET built == buildAction(arch)
         IN IF fault.at = "late" THEN [arch |-> built, thrown |-> FaultThrow(fault)]
            ELSE [arch |-> built, thrown |-> NoThrow]

clearWarnings(S, g) == [S EXCEPT !.heap[g].warnings = << >>]

\* printMessage appends the message to the warnings of the architecture.
printMessage(S, g, msg) == [S EXCEPT !.heap[g].warnings = Append(@, msg)]

getWarnings(S, g) == S.heap[g].warnings

\* ---- the records of a response ----

Header == [kind |-> "header"]

Closer == [kind |-> "closer"]

Payload(v) == [kind |-> "payload", value |-> v, closed |-> TRUE]

OpenPayload(v) == [kind |-> "payload", value |-> v, closed |-> FALSE]

Warnings(msgs) == [kind |-> "warnings", msgs |-> msgs]

Exception(tp, explain) == [kind |-> "exception", type |-> tp, explain |-> explain]

\* A message is the text of its class, a colon, and the explanation.
Message(class, explain) == [class |-> class, explain |-> explain]

write(S, r) == [S EXCEPT !.out = Append(@, r)]

\* passJavaException writes one exception record with the type and the explanation.
passJavaException(S, tp, explain) == write(S, Exception(tp, explain))

\* The process ends before the response is flushed: a fault the operating system
\* reports, which the handler main installs turns into exit.
Crash(S) == [S EXCEPT !.status = 1, !.out = << >>, !.crashed = TRUE]

Return(S) == [s |-> S, thrown |-> NoThrow]

Raise(S, e) == [s |-> S, thrown |-> e]

InRange(S, id) == id >= 0 /\ id < Len(S.archlist)

\* ---- GhidraCommand ----

loadParameters(S, cmd, req) ==
    IF req.idframe = "nostart"
    THEN Raise(S, JavaError("alignment", "Expecting arch id start"))
    ELSE IF req.idframe = "noend"
    THEN Raise(S, JavaError("alignment", "Expecting arch id end"))
    ELSE LET T == IF InRange(S, req.id)
                  THEN [S EXCEPT !.ghidra[cmd] = S.archlist[req.id + 1]]
                  ELSE S
         IN IF T.ghidra[cmd] = NullArch
            THEN Raise(T, JavaError("decompiler", "No architecture registered with decompiler"))
            ELSE Return(clearWarnings(T, T.ghidra[cmd]))

sendResult(S, cmd) ==
    IF S.ghidra[cmd] # NullArch
    THEN write(S, Warnings(getWarnings(S, S.ghidra[cmd])))
    ELSE S

\* ---- RegisterProgram ----

\* The last open slot of archlist, or -1.
OpenSlot(S) ==
    LET open == {i \in 0..(Len(S.archlist) - 1) : S.archlist[i + 1] = NullArch}
    IN IF open = {} THEN -1 ELSE CHOOSE i \in open : \A j \in open : j <= i

RegisterProgram_rawAction(S, req) ==
    LET g == S.nalloc + 1
        A == init(NewArchitecture, req.fault)
        S1 == [S EXCEPT !.nalloc = g, !.heap[g] = A.arch, !.ghidra["registerProgram"] = g]
        open == OpenSlot(S)
    IN IF A.thrown # NoThrow THEN Raise(S1, A.thrown)
       ELSE IF open = -1
       THEN Return([S1 EXCEPT !.archlist = Append(@, g), !.archid = Len(S.archlist)])
       ELSE Return([S1 EXCEPT !.archlist[open + 1] = g, !.archid = open])

RegisterProgram_sendResult(S) ==
    sendResult(write(S, Payload(S.archid)), "registerProgram")

\* ---- DeregisterProgram ----

DeregisterProgram_loadParameters(S, req) ==
    LET cmd == "deregisterProgram"
        S0 == [S EXCEPT !.inid = -1]
    IN IF req.idframe = "nostart"
       THEN Raise(S0, JavaError("alignment", "Expecting deregister id start"))
       ELSE IF req.idframe = "noend"
       THEN Raise([S0 EXCEPT !.inid = req.id],
                  JavaError("alignment", "Expecting deregister id end"))
       ELSE LET S1 == [S0 EXCEPT !.inid = req.id]
                T == IF InRange(S1, req.id)
                     THEN [S1 EXCEPT !.ghidra[cmd] = S1.archlist[req.id + 1]]
                     ELSE S1
            IN IF T.ghidra[cmd] = NullArch
               THEN Raise(T, JavaError("decompiler", "No architecture registered with decompiler"))
               ELSE Return(clearWarnings(T, T.ghidra[cmd]))

\* DeregisterProgram::rawAction that leaves the status of the command at 0.
DeregisterProgram_rawAction_KeepsServing(S, ub) ==
    LET g == S.ghidra["deregisterProgram"]
    IN IF g # NullArch /\ InRange(S, S.inid)
       THEN Return([S EXCEPT !.res = 1, !.archlist[S.inid + 1] = NullArch,
                             !.heap[g].alive = FALSE,
                             !.ghidra["deregisterProgram"] = NullArch])
       ELSE Return([S EXCEPT !.res = 0])

\* archlist[inid] is written without a test of inid: outside the vector the write
\* is undefined, and ub says what the build makes of it.
DeregisterProgram_rawAction(S, ub) ==
    LET cmd == "deregisterProgram"
        g == S.ghidra[cmd]
    IN IF g # NullArch
       THEN IF ~InRange(S, S.inid) /\ ub = "crash"
            THEN Return(Crash(S))
            ELSE LET list == IF InRange(S, S.inid)
                             THEN [S.archlist EXCEPT ![S.inid + 1] = NullArch]
                             ELSE S.archlist
                 IN Return([S EXCEPT !.res = 1, !.archlist = list, !.heap[g].alive = FALSE,
                                  !.ghidra[cmd] = NullArch, !.status = 1])
       ELSE Return([S EXCEPT !.res = 0])

DeregisterProgram_sendResult(S) ==
    sendResult(write(S, Payload(S.res)), "deregisterProgram")

\* ---- DecompileAt ----

NoRun == [arch |-> NullArch, root |-> NullAction, fn |-> "", clean |-> FALSE]

\* After the id: the XML of the address is read and parsed.
readAddress(L, req) ==
    IF L.thrown # NoThrow THEN L
    ELSE IF req.fault.at = "load" THEN Raise(L.s, FaultThrow(req.fault))
    ELSE L

DecompileAt_loadParameters(S, req) == readAddress(loadParameters(S, "decompileAt", req), req)

\* The current root action of the program is reset and performed on the function,
\* unless the function was processed before; the result is written as it is made.
\* DecompileAt::rawAction that performs the root action as the last function left it.
DecompileAt_performNoReset(S, g, root, req) ==
    [S EXCEPT !.heap[g] = perform(@, root, req.fn, req.fault.at = "perform"),
              !.ran = [arch |-> g, root |-> root, fn |-> req.fn,
                       clean |-> S.heap[g].rootstatus[root] = "status_start"]]

DecompileAt_perform(S, g, root, req) ==
    [S EXCEPT !.heap[g] = perform(reset(@, root), root, req.fn, req.fault.at = "perform"),
              !.ran = [arch |-> g, root |-> root, fn |-> req.fn,
                       clean |-> reset(S.heap[g], root).rootstatus[root] = "status_start"]]

\* The result is written as it is made, the document only for a complete function.
DecompileAt_write(S, g, started, req) ==
    IF ~started /\ req.fault.at = "perform"
    THEN Raise(S, FaultThrow(req.fault))
    ELSE IF isProcComplete(S.heap[g], req.fn)
    THEN IF req.fault.at = "save"
         THEN Raise(write(S, OpenPayload("doc")), FaultThrow(req.fault))
         ELSE Return(write(S, Payload("doc")))
    ELSE Return(write(S, Payload("")))

DecompileAt_rawAction(S, req) ==
    LET g == S.ghidra["decompileAt"]
        root == getCurrent(S.heap[g].allacts)
        started == isProcStarted(S.heap[g], req.fn)
    IN IF req.fault.at = "query"
       THEN Raise(S, LowlevelError("Bad decompile address"))
       ELSE IF started THEN DecompileAt_write(S, g, TRUE, req)
       ELSE IF root = NullAction THEN Return(Crash(S))
       ELSE DecompileAt_write(DecompileAt_perform(S, g, root, req), g, FALSE, req)

\* ---- SetAction ----

SetAction_loadParameters(S, req) == loadParameters(S, "setAction", req)

PrintStrings == {"tree", "notree"}

\* SetAction that changes the current root of every program.
SetAction_rawAction_AllPrograms(S, req) ==
    LET g == S.ghidra["setAction"]
        S0 == [S EXCEPT !.res = FALSE]
        S1 == IF req.actionstring # ""
              THEN [S0 EXCEPT !.heap = [a \in DOMAIN S0.heap |->
                                          [S0.heap[a] EXCEPT !.allacts = setCurrent(@, req.actionstring)]]]
              ELSE S0
    IN Return([S1 EXCEPT !.res = TRUE])

SetAction_rawAction(S, req) ==
    LET g == S.ghidra["setAction"]
        S0 == [S EXCEPT !.res = FALSE]
        S1 == IF req.actionstring # ""
              THEN [S0 EXCEPT !.heap[g].allacts = setCurrent(@, req.actionstring)]
              ELSE S0
    IN IF req.printstring # ""
       THEN IF req.printstring \in PrintStrings
            THEN Return([S1 EXCEPT !.heap[g].sendsyntaxtree = (req.printstring = "tree"),
                                !.res = TRUE])
            ELSE Raise(S1, LowlevelError("Unknown print action"))
       ELSE Return([S1 EXCEPT !.res = TRUE])

SetAction_sendResult(S) ==
    sendResult(write(S, Payload(IF S.res = TRUE THEN "t" ELSE "f")), "setAction")

\* ---- doit ----

loadParametersOf(S, cmd, req) ==
    IF cmd = "registerProgram" THEN Return(S)
    ELSE IF cmd = "deregisterProgram" THEN DeregisterProgram_loadParameters(S, req)
    ELSE IF cmd = "decompileAt" THEN DecompileAt_loadParameters(S, req)
    ELSE SetAction_loadParameters(S, req)

rawActionOf(S, cmd, req, ub) ==
    IF cmd = "registerProgram" THEN RegisterProgram_rawAction(S, req)
    ELSE IF cmd = "deregisterProgram" THEN DeregisterProgram_rawAction(S, ub)
    ELSE IF cmd = "decompileAt" THEN DecompileAt_rawAction(S, req)
    ELSE SetAction_rawAction(S, req)

sendResultOf(S, cmd) ==
    IF cmd = "registerProgram" THEN RegisterProgram_sendResult(S)
    ELSE IF cmd = "deregisterProgram" THEN DeregisterProgram_sendResult(S)
    ELSE IF cmd = "decompileAt" THEN sendResult(S, cmd)
    ELSE SetAction_sendResult(S)

ErrorPrefix(class) ==
    IF class = "XmlError" THEN "XML processing error"
    ELSE IF class = "RecovError" THEN "Recoverable Error"
    ELSE "Low-level Error"

\* The results are sent and the response is closed.
doitSend(P, cmd) ==
    IF P.crashed THEN P ELSE write(sendResultOf(P, cmd), Closer)

\* The handlers of doit: a java exception is passed on and nothing else is sent; any
\* other error becomes a message of the architecture, sent with the results.
doitCatch(T, thrown, cmd) ==
    IF T.crashed THEN T
    ELSE IF thrown.class = "JavaError"
    THEN passJavaException(T, thrown.type, thrown.explain)
    ELSE IF thrown = NoThrow THEN doitSend(T, cmd)
    ELSE IF T.ghidra[cmd] = NullArch THEN Crash(T)
    ELSE doitSend(printMessage(T, T.ghidra[cmd],
                               Message(ErrorPrefix(thrown.class), thrown.explain)), cmd)

\* The try block of doit after loadParameters: the end of the command, rawAction.
doitTry(L, cmd, req, ub) ==
    IF L.thrown # NoThrow THEN L
    ELSE IF ~req.endburst
    THEN Raise(L.s, JavaError("alignment", "Missing end of command"))
    ELSE rawActionOf(L.s, cmd, req, ub)

doitOutcome(B, cmd) == doitCatch([B.s EXCEPT !.fate = B.thrown.class], B.thrown, cmd)

doit(S, cmd, req, ub) ==
    doitOutcome(doitTry(loadParametersOf(write([S EXCEPT !.status = 0], Header), cmd, req),
                        cmd, req, ub),
                cmd)

\* ---- GhidraCapability::readCommand ----

readCommand(S, req, ub) ==
    IF req.name \notin CommandNames
    THEN [S EXCEPT !.out = <<Header, Warnings(<<Message("Bad command", req.name)>>), Closer>>,
                   !.fate = "unknown"]
    ELSE doit(S, req.name, req, ub)

\* ---- the process: main reads commands until one asks it to stop ----

\* The ids a client sends: those register-program can have answered with, and -1.
Ids == -1..(MaxArch - 1)

BaseRequest ==
    [name |-> "", idframe |-> "ok", id |-> 0, endburst |-> TRUE, actionstring |-> "",
     printstring |-> "", fault |-> NoFault, fn |-> "f"]

Framings == {f \in [idframe : {"ok", "nostart", "noend"}, endburst : BOOLEAN] :
                f.idframe # "ok" => f.endburst}

RegisterRequests ==
    {[BaseRequest EXCEPT !.name = "registerProgram", !.endburst = e, !.fault = f] :
        e \in BOOLEAN,
        f \in {NoFault, [at |-> "early", class |-> "LowlevelError"],
               [at |-> "late", class |-> "XmlError"]}}

DeregisterRequests ==
    {[BaseRequest EXCEPT !.name = "deregisterProgram", !.idframe = f.idframe,
                         !.endburst = f.endburst, !.id = id] :
        f \in Framings, id \in Ids}

DecompileRequests ==
    {[BaseRequest EXCEPT !.name = "decompileAt", !.idframe = f.idframe,
                         !.endburst = f.endburst, !.id = id] :
        f \in Framings \ {[idframe |-> "ok", endburst |-> TRUE]}, id \in Ids}
    \cup {[BaseRequest EXCEPT !.name = "decompileAt", !.id = id, !.fn = fn, !.fault = f] :
            id \in Ids, fn \in FuncIds,
            f \in {NoFault,
                   [at |-> "load", class |-> "XmlError"],
                   [at |-> "query", class |-> "LowlevelError"],
                   [at |-> "perform", class |-> "LowlevelError"],
                   [at |-> "perform", class |-> "RecovError"],
                   [at |-> "save", class |-> "LowlevelError"]}}

SetActionRequests ==
    {[BaseRequest EXCEPT !.name = "setAction", !.id = id, !.actionstring = a,
                         !.printstring = pr] :
        id \in Ids, a \in RootNames \cup {""}, pr \in {"", "tree", "junk"}}
    \cup {[BaseRequest EXCEPT !.name = "setAction", !.idframe = f.idframe,
                              !.endburst = f.endburst, !.id = id,
                              !.actionstring = "paramid"] :
            f \in Framings, id \in Ids}

UnknownRequests == {[BaseRequest EXCEPT !.name = "bogus"]}

Requests ==
    RegisterRequests \cup DeregisterRequests \cup DecompileRequests
        \cup SetActionRequests \cup UnknownRequests

\* What the request asked for, in the terms of the surface: the program a well-formed
\* set-action command with a root name selects that root for.
Selects(S, req) ==
    /\ req.name = "setAction" /\ req.idframe = "ok" /\ req.endburst
    /\ req.actionstring # ""

\* The request is for a program and its id, read in full, is none that archlist holds
\* a program under.
NamesNoProgram(S, req) ==
    /\ req.name \in CommandNames \ {"registerProgram"}
    /\ req.idframe = "ok"
    /\ ~(InRange(S, req.id) /\ S.archlist[req.id + 1] # NullArch)

\* The root each program has had selected for it, after a command took S to T.
Selected(S, T, req) ==
    IF T.crashed THEN T.picked
    ELSE IF req.name = "registerProgram" /\ T.archlist # S.archlist
    THEN [T.picked EXCEPT ![T.nalloc] = "decompile"]
    ELSE IF Selects(S, req) /\ T.ghidra["setAction"] # NullArch
    THEN [T.picked EXCEPT ![T.ghidra["setAction"]] = req.actionstring]
    ELSE T.picked

\* main: one command is read and answered; a status other than 0 ends the loop.
ReadCommandAct(req, ub) ==
    /\ srv.phase = "serving" /\ srv.status = 0 /\ srv.ncmd < MaxCmd
    /\ req.name = "registerProgram" => srv.nalloc < MaxArch
    /\ \E T \in {readCommand([srv EXCEPT !.out = << >>, !.ran = NoRun, !.ncmd = @ + 1],
                               req, ub)} :
          /\ srv' = [T EXCEPT !.picked = Selected(srv, T, req)]
          /\ last' = [call |-> req.name,
                      case |-> IF NamesNoProgram(srv, req) THEN "badid"
                               ELSE IF T.crashed THEN "crash"
                               ELSE IF req.name \notin CommandNames THEN "unknown"
                               ELSE "answered"]
    /\ UNCHANGED <<vbank, obank, blocks, err, walk, act, her, fd, mgr>>

NextSrv == \E req \in Requests, ub \in {"crash", "silent"} : ReadCommandAct(req, ub)

InitSrv ==
    /\ vbank = InitVbankLife
    /\ obank = InitObankLife
    /\ blocks = [b \in {1} |-> << >>]
    /\ err = ""
    /\ last = [call |-> "", case |-> ""]
    /\ walk = NoWalk
    /\ act = NoAct
    /\ her = NoHer
    /\ fd = NoFd
    /\ mgr = NoMgr
    /\ srv = [phase |-> "serving", archlist |-> << >>,
              heap |-> [a \in ArchIds |-> NewArchitecture], nalloc |-> 0,
              ghidra |-> [c \in CommandNames |-> NullArch],
              archid |-> -1, inid |-> -1, res |-> 0,
              out |-> << >>, status |-> 0, crashed |-> FALSE, ncmd |-> 0,
              fate |-> "none", ran |-> NoRun, picked |-> [a \in ArchIds |-> NullAction]]

SpecSrv == InitSrv /\ [][NextSrv]_vars

Registered(S, g) == \E i \in 1..Len(S.archlist) : S.archlist[i] = g

HasPayload(out) == \E i \in 1..Len(out) : out[i].kind = "payload"

\* An error record: an exception record with a type and an explanation, or a message
\* among the warnings with the words of its class and an explanation.
HasException(out) ==
    \E i \in 1..Len(out) :
        out[i].kind = "exception" /\ out[i].type # "" /\ out[i].explain # ""

HasErrorMessage(out, class) ==
    \E i \in 1..Len(out) :
        /\ out[i].kind = "warnings"
        /\ \E j \in 1..Len(out[i].msgs) :
              out[i].msgs[j].class = class /\ out[i].msgs[j].explain # ""

Answered(S) ==
    /\ Len(S.out) > 0 /\ S.out[1] = Header
    /\ IF S.fate = "none" THEN HasPayload(S.out)
       ELSE IF S.fate = "unknown" THEN HasErrorMessage(S.out, "Bad command")
       ELSE IF S.fate = "JavaError" THEN HasException(S.out)
       ELSE HasErrorMessage(S.out, ErrorPrefix(S.fate))

\* C20: every command the process has read, whether it succeeded, named an unknown
\* command, was mis-framed or threw an alignment, low-level, recoverable, XML or java
\* exception error, has produced a response, and the response carries the payload of
\* the command when it succeeded and otherwise an error record with the class of the
\* error and an explanation.
C20_EveryCommandAnswered ==
    (srv.phase = "serving" /\ srv.ncmd > 0) => Answered(srv)

\* The same with the undefined write of deregister-program left out: every command
\* that kept within archlist is answered.
DefinedCommandsAnswered ==
    (srv.phase = "serving" /\ srv.ncmd > 0 /\ ~srv.crashed) => Answered(srv)

\* ---------------------------------------------------------------------------
\* Heritage passes and the delay of dead-code removal.
\* ---------------------------------------------------------------------------

SpaceIds == 1..MaxSpace

\* AddrSpaceManager::setDeadcodeDelay: the delay is stored in the space as given.
setDeadcodeDelay(baselist, spcnum, delaydelta) ==
    [baselist EXCEPT ![spcnum].deadcodedelay = delaydelta]

\* Architecture::parseDeadcodeDelay: a <deadcodedelay> tag with a delay below 0 is
\* refused and changes nothing.
parseDeadcodeDelay(H, spc, delay) ==
    IF delay >= 0
    THEN [H EXCEPT !.baselist = setDeadcodeDelay(@, spc, delay), !.error = ""]
    ELSE [H EXCEPT !.error = "Bad <deadcodedelay> tag"]

HeritageInfo(spc, dl, dcdl) ==
    [space |-> spc, delay |-> dl, deadcodedelay |-> dcdl, deadremoved |-> 0,
     warningissued |-> FALSE]

\* buildInfoList: one record per space, from the delays the space is configured with.
buildInfoList(H) ==
    [H EXCEPT !.phase = "heritage", !.pass = 0,
              !.infolist = [spc \in SpaceIds |->
                              HeritageInfo(spc, H.baselist[spc].delay,
                                           H.baselist[spc].deadcodedelay)]]

getInfo(H, spc) == H.infolist[spc]

\* One pass of heritage: every space whose delay has passed is heritaged in this pass,
\* the pass number is recorded for what was heritaged, and the pass counter moves on.
heritage(H) ==
    [H EXCEPT !.first = [spc \in SpaceIds |->
                            IF H.first[spc] = -1 /\ getInfo(H, spc).delay <= H.pass
                            THEN H.pass ELSE H.first[spc]],
              !.pass = @ + 1]

\* deadRemovalAllowed that counts the dead-code delay from pass 0.
deadRemovalAllowed_FromStart(H, spc) == H.pass > getInfo(H, spc).deadcodedelay

\* Removal is allowed once the space has been heritaged, in the pass numbered by its
\* delay, and the dead-code delay has gone by since.
deadRemovalAllowed(H, spc) ==
    LET info == getInfo(H, spc)
    IN H.pass > info.delay /\ H.pass - info.delay >= info.deadcodedelay

NoQuery == [spc |-> 0, pass |-> 0, allowed |-> FALSE]

ParseDeadcodeDelayAct(spc, delay) ==
    /\ her.phase = "config"
    /\ her' = parseDeadcodeDelay(her, spc, delay)
    /\ last' = [call |-> "parseDeadcodeDelay", case |-> IF delay >= 0 THEN "set" ELSE "bad"]
    /\ UNCHANGED <<vbank, obank, blocks, err, walk, act, srv, fd, mgr>>

BuildInfoListAct ==
    /\ her.phase = "config"
    /\ her' = buildInfoList(her)
    /\ last' = [call |-> "buildInfoList", case |-> ""]
    /\ UNCHANGED <<vbank, obank, blocks, err, walk, act, srv, fd, mgr>>

HeritageAct ==
    /\ her.phase = "heritage" /\ her.pass < MaxPass
    /\ her' = [heritage(her) EXCEPT !.query = NoQuery]
    /\ last' = [call |-> "heritage", case |-> ""]
    /\ UNCHANGED <<vbank, obank, blocks, err, walk, act, srv, fd, mgr>>

DeadRemovalAllowedAct(spc) ==
    /\ her.phase = "heritage"
    /\ her' = [her EXCEPT !.query = [spc |-> spc, pass |-> her.pass,
                                     allowed |-> deadRemovalAllowed(her, spc)]]
    /\ last' = [call |-> "deadRemovalAllowed", case |-> ""]
    /\ UNCHANGED <<vbank, obank, blocks, err, walk, act, srv, fd, mgr>>

NextHer ==
    \/ \E spc \in SpaceIds, delay \in -1..MaxDelay : ParseDeadcodeDelayAct(spc, delay)
    \/ BuildInfoListAct
    \/ HeritageAct
    \/ \E spc \in SpaceIds : DeadRemovalAllowedAct(spc)

\* The spaces as the translator built them: each with a delay, and a dead-code delay
\* that a <deadcodedelay> tag may replace.
InitHer ==
    /\ vbank = InitVbankLife
    /\ obank = InitObankLife
    /\ blocks = [b \in {1} |-> << >>]
    /\ err = ""
    /\ last = [call |-> "", case |-> ""]
    /\ walk = NoWalk
    /\ act = NoAct
    /\ srv = NoSrv
    /\ fd = NoFd
    /\ mgr = NoMgr
    /\ \E dl \in [SpaceIds -> 0..MaxDelay] :
          her = [phase |-> "config", error |-> "",
                 baselist |-> [spc \in SpaceIds |->
                                 [delay |-> dl[spc], deadcodedelay |-> dl[spc]]],
                 infolist |-> [spc \in SpaceIds |-> HeritageInfo(spc, 0, 0)],
                 pass |-> 0, first |-> [spc \in SpaceIds |-> -1], query |-> NoQuery]

SpecHer == InitHer /\ [][NextHer]_vars

\* C19: whenever deadRemovalAllowed answers yes for a space at pass p, the space has
\* been heritaged in an earlier pass, and p minus the first pass in which it was
\* heritaged is at least its dead-code delay.
C19_NoEarlyDeadRemoval ==
    (her.phase = "heritage" /\ her.query.allowed) =>
        /\ her.first[her.query.spc] # -1
        /\ her.first[her.query.spc] < her.query.pass
        /\ her.query.pass - her.first[her.query.spc]
              >= getInfo(her, her.query.spc).deadcodedelay

\* Removal was allowed for a space that was first heritaged after pass 0 and has a
\* dead-code delay of its own, while it is still refused for another space.
C19_Witness ==
    /\ her.phase = "heritage" /\ her.query.allowed
    /\ her.first[her.query.spc] > 0
    /\ getInfo(her, her.query.spc).deadcodedelay > 0
    /\ \E spc \in SpaceIds : ~deadRemovalAllowed(her, spc)

\* ---- a failed function and the next one ----

\* C21: a decompile command that throws a low-level, recoverable or XML error leaves
\* the command loop running, and a later decompile command for another function of the
\* same program, with nothing failing, is served as if the failure had not happened:
\* the root action runs from its start, the function is analysed completely, and the
\* response is the document with no message of the earlier error.
C21_NextFunctionServed ==
    (srv.phase = "serving" /\ last.call = "decompileAt" /\ ~srv.crashed /\ srv.ncmd > 0) =>
        /\ srv.status = 0
        /\ (srv.fate = "none" /\ srv.ran # NoRun) =>
              /\ srv.ran.clean
              /\ srv.heap[srv.ran.arch].funcs[srv.ran.fn] = "complete"
              /\ srv.out = <<Header, Payload("doc"), Warnings(<< >>), Closer>>

\* A decompile command was served for one function after the analysis of another
\* function of the same program had failed.
C21_Witness ==
    /\ srv.phase = "serving" /\ last.call = "decompileAt"
    /\ srv.fate = "none" /\ srv.ran # NoRun
    /\ \E fn \in FuncIds : fn # srv.ran.fn /\ srv.heap[srv.ran.arch].funcs[fn] = "started"

\* ---- ids that name no program ----

NoArchitecture == Exception("decompiler", "No architecture registered with decompiler")

\* C26: a command whose id is out of range or names no registered program is answered
\* with the error 'No architecture registered with decompiler' and is run against no
\* architecture: no architecture, and no entry of archlist, changes, whatever
\* architectures the same command ran against before.
C26_BadIdNeverExecuted ==
    [][last'.case = "badid" =>
          /\ srv'.fate = "JavaError"
          /\ srv'.out = <<Header, NoArchitecture>>
          /\ srv'.heap = srv.heap
          /\ srv'.archlist = srv.archlist
          /\ srv'.ran = NoRun]_vars

\* ---- deregistration ----

OthersRegistered(S) ==
    \E i \in 1..Len(S.archlist) : S.archlist[i] # NullArch /\ S.heap[S.archlist[i]].alive

\* C27 as stated: after one of two registered programs is deregistered the command
\* loop goes on accepting commands.
C27_LoopContinuesAfterDeregister ==
    (srv.phase = "serving" /\ last = [call |-> "deregisterProgram", case |-> "answered"]
        /\ srv.fate = "none" /\ OthersRegistered(srv)) => srv.status = 0

\* C27 as amended: a deregister-program command that is carried out empties the slot
\* of the program, deletes it, and ends the command loop; the programs still
\* registered are left as they were but no later command is served.
C27_DeregisterEndsLoop ==
    [][/\ (last'.call = "deregisterProgram" /\ last'.case = "answered" /\ srv'.fate = "none") =>
            /\ srv'.status = 1
            /\ srv'.archlist = [srv.archlist EXCEPT ![srv'.inid + 1] = NullArch]
            /\ \A g \in ArchIds :
                  IF g = srv.archlist[srv'.inid + 1]
                  THEN ~srv'.heap[g].alive
                  ELSE srv'.heap[g] = [srv.heap[g] EXCEPT !.warnings = srv'.heap[g].warnings]
       /\ srv.status = 1 => srv' = srv]_vars

\* One of two registered programs was deregistered; the other is still in archlist.
C27_Witness ==
    /\ srv.phase = "serving" /\ last = [call |-> "deregisterProgram", case |-> "answered"]
    /\ srv.fate = "none" /\ srv.status = 1
    /\ Len(srv.archlist) = 2 /\ OthersRegistered(srv)
    /\ \E i \in 1..2 : srv.archlist[i] = NullArch

\* ---- the id a register-program response reports ----

\* C28: the id in the response to a register-program command is the index in archlist
\* of the architecture that this command created.
C28_ReportedIdIsOwn ==
    (srv.phase = "serving" /\ last.call = "registerProgram" /\ srv.ncmd > 0) =>
        \A i \in 1..Len(srv.out) :
            (srv.out[i].kind = "payload" /\ srv.out[i].value >= 0) =>
                /\ InRange(srv, srv.out[i].value)
                /\ srv.archlist[srv.out[i].value + 1] = srv.ghidra["registerProgram"]

\* ------------------------------------------- edits of a zero-input op
\* opSetOpcode on an op that already has an opcode (a CALL becoming a CALLIND
\* or back).
OpResetOpcodeAct(op, opc) ==
    /\ obank.code[op] \notin {"BLANK", opc}
    /\ Step(opSetOpcode(Store, op, opc), "opSetOpcode", "recode")

ZeroInput(op) == obank.inrefs[op] = << >>

NextZero ==
    \/ \E op \in LiveOps, opc \in {"CALL", "CALLIND"} : ZeroInput(op) /\ OpResetOpcodeAct(op, opc)
    \/ \E op \in LiveOps, vvec \in Vvecs : OpSetAllInputAct(op, vvec)
    \/ \E op \in LiveOps, vn \in FlowVns : OpSetOutputAct(op, vn)
    \/ \E op \in LiveOps : OpUnsetOutputAct(op)
    \/ \E op \in LiveOps : OpUnlinkAct(op)
    \/ \E op \in LiveOps : OpDestroyAct(op)
    \/ \E op \in LiveOps, vn \in FlowVns : \E slot \in Slots(op) : OpSetInputAct(op, vn, slot)
    \/ \E op \in LiveOps, bl \in BlockIds : OpInsertEndAct(op, bl)

\* The parameterless CALL and the COPY of InitOut.
SpecZero == InitOut /\ [][NextZero]_vars

\* The edits of a zero-input op that add no input and keep the op.
ZeroEditKeeping(op) ==
    \/ \E opc \in {"CALL", "CALLIND"} : OpResetOpcodeAct(op, opc)
    \/ OpSetAllInputAct(op, << >>)
    \/ \E vn \in FlowVns : OpSetOutputAct(op, vn)
    \/ OpUnsetOutputAct(op)
    \/ OpUnlinkAct(op)

\* ------------------------------------------------------------------ C22
\* C22 as stated: set-opcode, set-all-inputs with the empty vector, set-output,
\* unset-output, unlink and destroy of an op without inputs all complete and
\* leave the reader list of every variable as it was.
C22_NoReaderListTouched ==
    [][\A op \in obank.live :
          (ZeroInput(op) /\ (ZeroEditKeeping(op) \/ OpDestroyAct(op))) =>
              /\ err' = ""
              /\ vbank'.descend = vbank.descend]_vars

\* C22 amended: the edits that keep the op leave every reader list as it was;
\* destroy leaves every reader list but that of the op's own output, which it
\* empties, taking the output out of the slots of its readers.
C22_OnlyDestroyedOutputTouched ==
    [][\A op \in obank.live :
          ZeroInput(op) =>
              /\ ZeroEditKeeping(op) =>
                    /\ err' = ""
                    /\ vbank'.descend = vbank.descend
              /\ OpDestroyAct(op) =>
                    /\ err' = ""
                    /\ \A vn \in VnIds \ {obank.output[op]} :
                          vbank'.descend[vn] = vbank.descend[vn]
                    /\ obank.output[op] # NullVn =>
                          /\ vbank'.descend[obank.output[op]] = << >>
                          /\ obank.output[op] \notin vbank'.live
                          /\ \A r \in obank'.live : \A i \in 1..Len(obank'.inrefs[r]) :
                                obank'.inrefs[r][i] # obank.output[op]]_vars

\* A parameterless op whose output had a reader has just been destroyed: the
\* reader is still there, its slot empty.
C22_Witness ==
    /\ last.call = "opDestroy"
    /\ err = ""
    /\ last.case = "detached"
    /\ ZeroInput(1)
    /\ obank.parent[2] # NoBlock
    /\ obank.inrefs[2] = <<NullVn>>
    /\ 2 \notin vbank.live
    /\ \A vn \in VnIds : vbank.descend[vn] = << >>

\* ------------------------------------- the ancestry walk, step by step
\* Data-flow graphs with loops.  Variables 1..MaxLoop take any of the shapes;
\* a COPY reads another variable, an INDIRECT and a MULTIEQUAL read any of
\* them, themselves included.  The rest of the variables are free.
LoopIds == 1..MaxLoop

LoopShapes(i) ==
    IF i \notin LoopIds THEN {[k |-> "free", in |-> << >>]}
    ELSE {[k |-> kind, in |-> << >>] : kind \in {"free", "unaffected", "kill", "load"}}
         \cup {[k |-> kind, in |-> <<j>>] : kind \in {"thru", "move"}, j \in LoopIds \ {i}}
         \cup {[k |-> "indirect", in |-> <<j, PcVn>>] : j \in LoopIds}
         \cup {[k |-> "multi", in |-> <<a, b>>] : a \in LoopIds, b \in LoopIds}

RECURSIVE LoopGraphsFrom(_)
LoopGraphsFrom(i) ==
    IF i > MaxNode THEN {<< >>}
    ELSE {<<sh>> \o rest : sh \in LoopShapes(i), rest \in LoopGraphsFrom(i + 1)}

\* In static single assignment form a variable is defined before it is read
\* except through a MULTIEQUAL or an INDIRECT: a chain of copies ends.
RECURSIVE CopyChainEnds(_, _, _)
CopyChainEnds(g, i, n) ==
    IF g[i].k \notin {"thru", "move"} THEN TRUE
    ELSE IF n = 0 THEN FALSE
    ELSE CopyChainEnds(g, g[i].in[1], n - 1)

LoopGraphs == {g \in LoopGraphsFrom(1) : \A i \in LoopIds : CopyChainEnds(g, i, MaxLoop)}

InitTrav ==
    \E g \in LoopGraphs :
        /\ vbank = GraphVbank(g)
        /\ obank = GraphObank(g)
        /\ blocks = GraphBlocks(g, 1)
        /\ err = ""
        /\ last = [call |-> "", case |-> ""]
        /\ walk = [phase |-> "ready"]
        /\ act = NoAct
        /\ srv = NoSrv
        /\ her = NoHer
        /\ fd = NoFd
        /\ mgr = NoMgr

TravStep(ph, W, call, case) ==
    /\ walk' = [phase |-> ph] @@ W
    /\ last' = [call |-> call, case |-> case]
    /\ UNCHANGED <<vbank, obank, blocks, err, act, srv, her, fd, mgr>>

\* execute, up to the first push: the members are reset; a trial that is a
\* function input is turned down at once.
BeginAct(allowFail) ==
    /\ walk.phase = "ready"
    /\ LET W0 == [stack |-> << >>, cmd |-> "enter_node", marks |-> {}, markedVn |-> << >>,
                  multiDepth |-> 0, trial |-> {}, allowFailingPath |-> allowFail,
                  log |-> << >>]
       IN IF isInput(Store, getIn(Store, CallOp, 2))
          THEN TravStep("done", W0 @@ [ret |-> FALSE], "execute", "input")
          ELSE TravStep("running", Push(W0, NewState(Store, CallOp, 2)), "execute", "push")

\* One turn of the loop of execute with the command enter_node.
EnterNodeAct ==
    /\ walk.phase = "running"
    /\ walk.stack # << >>
    /\ walk.cmd = "enter_node"
    /\ TravStep("running", enterNode(Store, walk), "enterNode",
                IF Top(walk).vn \in walk.marks THEN "marked" ELSE "fresh")

\* One turn of the loop of execute with a pop command.
UponPopAct ==
    /\ walk.phase = "running"
    /\ walk.stack # << >>
    /\ walk.cmd # "enter_node"
    /\ TravStep("running", uponPop(Store, walk, walk.cmd), "uponPop", walk.cmd)

\* The loop of execute has ended: the marks are cleaned up and the result returned.
ReturnAct ==
    /\ walk.phase = "running"
    /\ walk.stack = << >>
    /\ TravStep("done", clearMarks(walk) @@ [ret |-> walk.cmd \in {"pop_success", "pop_solid"}],
                "execute", "return")

NextTrav ==
    \/ \E allowFail \in BOOLEAN : BeginAct(allowFail)
    \/ EnterNodeAct
    \/ UponPopAct
    \/ ReturnAct

\* execute runs to its end unless the loop itself never ends.
SpecTrav == InitTrav /\ [][NextTrav]_vars /\ WF_vars(NextTrav)

\* ------------------------------------------------------------------ C23
\* C23: on every data-flow graph, loops through MULTIEQUAL and INDIRECT
\* included, execute returns; when it has, the state stack is empty and no
\* variable is left marked.
C23_WalkEndsClean ==
    /\ <>(walk.phase = "done")
    /\ [](walk.phase = "done" => walk.stack = << >> /\ walk.marks = {})

\* The walk has returned from a loop through a MULTIEQUAL and an INDIRECT: the
\* trial is a MULTIEQUAL of itself and of a variable carried across a call from
\* the trial; both were marked and the second visit of the trial was cut short.
C23_Witness ==
    /\ walk.phase = "done"
    /\ obank.code[1] = "MULTIEQUAL"
    /\ obank.inrefs[1] = <<2, 1>>
    /\ obank.code[2] = "INDIRECT"
    /\ obank.inrefs[2][1] = 1
    /\ walk.markedVn = <<1, 2>>
    /\ walk.stack = << >>

\* ------------------------------------------ unlinking and destruction
\* opDestroyRaw is for an op of flow generation that has been replaced: in no
\* block, its inputs and its output linked to nothing else.
RawOp(op) ==
    /\ obank.parent[op] = NoBlock
    /\ \A vn \in Range(obank.inrefs[op]) \ {NullVn} :
          vbank.def[vn] = NullOp /\ Range(vbank.descend[vn]) = {op}
    /\ obank.output[op] # NullVn => vbank.descend[obank.output[op]] = << >>

NextGone ==
    \/ \E op \in LiveOps, vn \in FlowVns : \E slot \in Slots(op) : OpSetInputAct(op, vn, slot)
    \/ \E op \in LiveOps, vn \in FlowVns :
          \E slot \in 1..(Len(obank.inrefs[op]) + 1) : OpInsertInputAct(op, vn, slot)
    \/ \E op \in LiveOps : \E slot \in Slots(op) : OpUnsetInputAct(op, slot)
    \/ \E op \in LiveOps : \E slot \in Slots(op) : OpRemoveInputAct(op, slot)
    \/ \E op \in LiveOps, vn \in FlowVns : OpSetOutputAct(op, vn)
    \/ \E op \in LiveOps, bl \in BlockIds : OpInsertEndAct(op, bl)
    \/ \E op \in LiveOps : OpDestroyAct(op)
    \/ \E op \in LiveOps : RawOp(op) /\ OpDestroyRawAct(op)
    \/ \E vn \in FlowVns : DestroyVarnodeAct(vn)

SpecGone == InitOut /\ [][NextGone]_vars

\* Every reader-list entry of a variable in the store is an op in the store
\* that holds the variable in a slot.
ReadersHold ==
    \A vn \in vbank.live : \A op \in Range(vbank.descend[vn]) :
        op \in obank.live /\ vn \in Range(obank.inrefs[op])

\* No op in the store holds a variable that is no longer in the store.
NoSlotOnDestroyed ==
    \A op \in obank.live : \A vn \in Range(obank.inrefs[op]) :
        vn # NullVn => vn \in vbank.live

DestroyedOp(op) == OpDestroyAct(op) \/ (RawOp(op) /\ OpDestroyRawAct(op))

\* ------------------------------------------------------------------ C24
\* C24 as stated: every reader-list entry of a surviving variable is an op that
\* still holds it, no surviving op holds a destroyed variable, and the
\* destruction of an op empties no input slot of another op.
C24_NoSlotEmptiedByDestroy ==
    /\ [](ReadersHold /\ NoSlotOnDestroyed)
    /\ [][\A op \in obank.live :
             DestroyedOp(op) =>
                \A r \in obank'.live \ {op} : \A i \in 1..Len(obank.inrefs[r]) :
                    obank.inrefs[r][i] # NullVn => obank'.inrefs[r][i] # NullVn]_vars

\* C24 amended: every reader-list entry of a surviving variable is an op that
\* still holds it and no surviving op holds a destroyed variable; the
\* destruction of an op empties those input slots of other ops that held a
\* variable destroyed with it (its output, for destroy-raw its inputs too) and
\* no other.
C24_DestroyEmptiesReaders ==
    /\ [](ReadersHold /\ NoSlotOnDestroyed)
    /\ [][\A op \in obank.live :
             DestroyedOp(op) =>
                /\ (vbank.live \ vbank'.live) \subseteq
                      ({obank.output[op]} \cup
                          (IF OpDestroyRawAct(op) THEN Range(obank.inrefs[op]) ELSE {}))
                /\ \A r \in obank'.live \ {op} :
                      obank'.inrefs[r] =
                         [i \in 1..Len(obank.inrefs[r]) |->
                            IF obank.inrefs[r][i] \in vbank'.live
                            THEN obank.inrefs[r][i] ELSE NullVn]]_vars

\* An op in no block has just been destroyed with its output, which the other
\* op read: the other op is still in the store, in no block, its slot empty.
C24_Witness ==
    /\ last = [call |-> "opDestroy", case |-> "detached"]
    /\ err = ""
    /\ obank.parent[2] = NoBlock
    /\ obank.inrefs[2] = <<NullVn>>
    /\ 2 \notin vbank.live
    /\ ReadersHold

\* ------------------------------------------------------ input variables
\* Offsets into one address space are unsigned integers of AddrBits bits.
SpaceSize == 2 ^ AddrBits
Offsets == 0..(SpaceSize - 1)

\* Address::operator+ on the offset: unsigned arithmetic of the offset's width.
addrPlus(off, n) == (off + n) % SpaceSize

\* Address::overlap(skip = 0): the position of off within the range of size
\* bytes that starts at opoff, or -1.
addrOverlap(off, opoff, size) ==
    LET dist == (off - opoff) % SpaceSize
    IN IF dist >= size THEN -1 ELSE dist

\* Varnode::overlap
overlap(F, vn, op) == addrOverlap(F.vb.offset[vn], F.vb.offset[op], F.vb.size[op])

\* The order of the input variables in the index by definition: by address,
\* then by size.
DefBefore(F, a, b) ==
    \/ F.vb.offset[a] < F.vb.offset[b]
    \/ F.vb.offset[a] = F.vb.offset[b] /\ F.vb.size[a] < F.vb.size[b]

Inputs(F) == {v \in F.vb.live : isInput(F, v)}

\* vbank.beginDef(Varnode::input, addr) stepped back by one: the last input
\* variable that starts below addr, NullVn when the iterator is at beginDef().
prevInput(F, addr) ==
    LET S == {v \in Inputs(F) : F.vb.offset[v] < addr}
    IN IF S = {} THEN NullVn
       ELSE CHOOSE v \in S : \A u \in S \ {v} : DefBefore(F, u, v)

\* VarnodeBank::setInput: the variable becomes an input and is indexed again;
\* when the index already holds an input of the same address and size the
\* variable is replaced by it and deleted.
bankSetInput(F, vn) ==
    LET same == {v \in Inputs(F) : /\ F.vb.offset[v] = F.vb.offset[vn]
                                   /\ F.vb.size[v] = F.vb.size[vn]}
    IN IF ~isFree(F, vn) THEN Throw(F, "Making input out of varnode which is not free") @@ [ret |-> NullVn]
       ELSE IF same # {} THEN [F EXCEPT !.vb.live = @ \ {vn}] @@ [ret |-> CHOOSE v \in same : TRUE]
       ELSE [F EXCEPT !.vb.flags[vn] = @ \cup {"input"}] @@ [ret |-> vn]

\* The effect the prototype records for a storage location.
EffectTypes == {"unknown", "unaffected", "return_address"}

\* Funcdata::setInputVarnode
setInputVarnode(F, vn, effecttype) ==
    LET invn == prevInput(F, addrPlus(F.vb.offset[vn], F.vb.size[vn]))
        G == bankSetInput(F, vn)
    IN IF isInput(F, vn) THEN F @@ [ret |-> vn]
       ELSE IF invn # NullVn /\ (overlap(F, vn, invn) # -1 \/ overlap(F, invn, vn) # -1)
       THEN IF F.vb.size[vn] = F.vb.size[invn] /\ F.vb.offset[vn] = F.vb.offset[invn]
            THEN F @@ [ret |-> invn]
            ELSE Throw(F, "Overlapping input varnodes") @@ [ret |-> NullVn]
       ELSE IF G.err # "" THEN G
       ELSE [G EXCEPT !.vb.flags[G.ret] =
                @ \cup (CASE effecttype = "unaffected" -> {"unaffected"}
                          [] effecttype = "return_address" -> {"unaffected", "return_address"}
                          [] OTHER -> {})]

\* Two variables share a byte of storage.
Overlapping(a, b) ==
    \E x \in 0..(vbank.size[a] - 1), y \in 0..(vbank.size[b] - 1) :
        vbank.offset[a] + x = vbank.offset[b] + y

SetInputVarnodeAct(vn, effecttype) ==
    LET G == setInputVarnode(Store, vn, effecttype)
    IN /\ vbank' = G.vb
       /\ err' = G.err
       /\ last' = [call |-> "setInputVarnode", ret |-> G.ret, vn |-> vn,
                   case |-> IF G.err # "" THEN "thrown"
                            ELSE IF G.ret = vn /\ isInput(Store, vn) THEN "already"
                            ELSE IF G.ret # vn THEN "existing"
                            ELSE "marked"]
       /\ UNCHANGED <<obank, blocks, walk, act, srv, her, fd, mgr>>

NextInput == \E vn \in vbank.live, effecttype \in EffectTypes : SetInputVarnodeAct(vn, effecttype)

\* The storage a variable can have: it lies within the space.
Placements == {pl \in Offsets \X (1..2) : pl[1] + pl[2] <= SpaceSize}

\* MaxFree free variables, created in the order of their storage.
InitInput ==
    \E pl \in [1..MaxFree -> Placements] :
        /\ \A i \in 1..(MaxFree - 1) :
              \/ pl[i][1] < pl[i + 1][1]
              \/ pl[i][1] = pl[i + 1][1] /\ pl[i][2] <= pl[i + 1][2]
        /\ vbank = [live |-> 1..MaxFree,
                    count |-> MaxFree,
                    flags |-> [vn \in VnIds |-> {}],
                    size |-> [vn \in VnIds |-> IF vn <= MaxFree THEN pl[vn][2] ELSE 0],
                    offset |-> [vn \in VnIds |-> IF vn <= MaxFree THEN pl[vn][1] ELSE 0],
                    def |-> [vn \in VnIds |-> NullOp],
                    descend |-> [vn \in VnIds |-> << >>],
                    iop |-> [vn \in VnIds |-> NullOp]]
        /\ obank = [InitObankLife EXCEPT !.live = {}, !.count = 0]
        /\ blocks = [b \in {1} |-> << >>]
        /\ err = ""
        /\ last = [call |-> "", case |-> ""]
        /\ walk = NoWalk
        /\ act = NoAct
        /\ srv = NoSrv
        /\ her = NoHer
        /\ fd = NoFd
        /\ mgr = NoMgr

SpecInput == InitInput /\ [][NextInput]_vars

\* ------------------------------------------------------------------ C25
\* C25: no two distinct input variables overlap in storage; marking a variable
\* returns the existing input of the same address and size when there is one,
\* throws 'Overlapping input varnodes' when another existing input overlaps
\* it, and marks it only when no existing input overlaps.
C25_InputsNeverOverlap ==
    /\ [](\A a \in vbank.live, b \in vbank.live :
             (a # b /\ "input" \in vbank.flags[a] /\ "input" \in vbank.flags[b])
                => ~Overlapping(a, b))
    /\ [][\A vn \in vbank.live :
             (\E e \in EffectTypes : SetInputVarnodeAct(vn, e)) /\ "input" \notin vbank.flags[vn] =>
                LET Others == {v \in vbank.live : "input" \in vbank.flags[v] /\ Overlapping(v, vn)}
                    Same == {v \in Others : /\ vbank.offset[v] = vbank.offset[vn]
                                            /\ vbank.size[v] = vbank.size[vn]}
                IN CASE Same # {} -> err' = "" /\ last'.ret \in Same
                     [] Same = {} /\ Others # {} -> err' = "Overlapping input varnodes"
                     [] OTHER -> err' = "" /\ last'.ret = vn /\ "input" \in vbank'.flags[vn]]_vars

\* ------------------------------------- boolean properties of a function
\* The bits of Funcdata::flags, by name.
FuncdataFlags ==
    {"highlevel_on", "blocks_generated", "blocks_unreachable", "processing_started",
     "processing_complete", "typerecovery_on", "no_code", "jumptablerecovery_on",
     "jumptablerecovery_dont", "restart_pending", "unimplemented_present",
     "baddata_present", "double_precis_on"}

isHighOn(f) == "highlevel_on" \in f.flags
hasNoCode(f) == "no_code" \in f.flags
isJumptableRecoveryOn(f) == "jumptablerecovery_on" \in f.flags
isDoublePrecisOn(f) == "double_precis_on" \in f.flags

setNoCode(f, val) ==
    IF val THEN [f EXCEPT !.flags = @ \cup {"no_code"}]
    ELSE [f EXCEPT !.flags = @ \ {"no_code"}]

setJumptableRecovery(f, val) ==
    IF val THEN [f EXCEPT !.flags = @ \ {"jumptablerecovery_dont"}]
    ELSE [f EXCEPT !.flags = @ \cup {"jumptablerecovery_dont"}]

setDoublePrecisRecovery(f, val) ==
    IF val THEN [f EXCEPT !.flags = @ \cup {"double_precis_on"}]
    ELSE [f EXCEPT !.flags = @ \ {"double_precis_on"}]

\* Funcdata::setHighLevel, the flag
setHighLevel(f) ==
    IF isHighOn(f) THEN f ELSE [f EXCEPT !.flags = @ \cup {"highlevel_on"}]

\* Funcdata::followFlow, the flags: the flow may have met unimplemented
\* instructions and bad data.
followFlow(f, unimpl, baddata) ==
    [f EXCEPT !.flags = @ \cup {"blocks_generated"}
                          \cup (IF unimpl THEN {"unimplemented_present"} ELSE {})
                          \cup (IF baddata THEN {"baddata_present"} ELSE {})]

FdStep(f, call, case) ==
    /\ fd.phase = "function"
    /\ fd' = f
    /\ last' = [call |-> call, case |-> case]
    /\ UNCHANGED <<vbank, obank, blocks, err, walk, act, srv, her, mgr>>

BoolName(val) == IF val THEN "true" ELSE "false"

SetNoCodeAct(val) == FdStep(setNoCode(fd, val), "setNoCode", BoolName(val))
SetJumptableRecoveryAct(val) ==
    FdStep(setJumptableRecovery(fd, val), "setJumptableRecovery", BoolName(val))
SetDoublePrecisRecoveryAct(val) ==
    FdStep(setDoublePrecisRecovery(fd, val), "setDoublePrecisRecovery", BoolName(val))
SetHighLevelAct == FdStep(setHighLevel(fd), "setHighLevel", "")
FollowFlowAct(unimpl, baddata) ==
    /\ "blocks_generated" \notin fd.flags
    /\ FdStep(followFlow(fd, unimpl, baddata), "followFlow", "")

NextFd ==
    \/ \E val \in BOOLEAN : SetNoCodeAct(val)
    \/ \E val \in BOOLEAN : SetJumptableRecoveryAct(val)
    \/ \E val \in BOOLEAN : SetDoublePrecisRecoveryAct(val)
    \/ SetHighLevelAct
    \/ \E unimpl \in BOOLEAN, baddata \in BOOLEAN : FollowFlowAct(unimpl, baddata)

\* A function as it is constructed: no property set.
InitFd ==
    /\ vbank = InitVbankLife
    /\ obank = InitObankLife
    /\ blocks = [b \in {1} |-> << >>]
    /\ err = ""
    /\ last = [call |-> "", case |-> ""]
    /\ walk = NoWalk
    /\ act = NoAct
    /\ srv = NoSrv
    /\ her = NoHer
    /\ fd = [phase |-> "function", flags |-> {}]
    /\ mgr = NoMgr

SpecFd == InitFd /\ [][NextFd]_vars

\* ------------------------------------------------------------------ C30
\* C30: right after setJumptableRecovery(val), isJumptableRecoveryOn() is val.
C30_SetterShowsInGetter ==
    [][\A val \in BOOLEAN :
          SetJumptableRecoveryAct(val) => (isJumptableRecoveryOn(fd') <=> val)]_vars

\* ----------------------------------------------------------- join records
\* The memory locations that are joined: registers of 8, 8 and 16 bytes.
VarnodeDatas ==
    {[space |-> "register", offset |-> 0, size |-> 8],
     [space |-> "register", offset |-> 8, size |-> 8],
     [space |-> "register", offset |-> 16, size |-> 16]}

\* The piece lists handed to findAddJoin, with the logical size: one register
\* holding a value of lower precision, two registers joined, and the lists the
\* function turns down.
JoinRequests ==
    {[pieces |-> <<p>>, logicalsize |-> l] : p \in VarnodeDatas, l \in {0, 4}}
    \cup {[pieces |-> pq, logicalsize |-> 0] :
             pq \in {x \in VarnodeDatas \X VarnodeDatas : x[1] # x[2]}}
    \cup {[pieces |-> pq, logicalsize |-> 4] :
             pq \in {x \in VarnodeDatas \X VarnodeDatas : x[1].offset = 0 /\ x[2].offset = 8}}
    \cup {[pieces |-> << >>, logicalsize |-> 0]}

RECURSIVE SumSizes(_, _)
SumSizes(pieces, i) ==
    IF i > Len(pieces) THEN 0 ELSE pieces[i].size + SumSizes(pieces, i + 1)

\* JoinRecord::operator< finds neither record smaller: the same unified size
\* and the same pieces.
SameJoin(rec, pieces, totalsize) == rec.unified.size = totalsize /\ rec.pieces = pieces

\* splitset.find: the index in splitlist of the record found, 0 for end().
splitsetFind(M, pieces, totalsize) ==
    LET S == {i \in 1..Len(M.splitlist) : SameJoin(M.splitlist[i], pieces, totalsize)}
    IN IF S = {} THEN 0 ELSE CHOOSE i \in S : TRUE

\* Next biggest multiple of 16.
RoundSize(totalsize) == ((totalsize + 15) \div 16) * 16

newJoin(M, pieces, totalsize) ==
    [M EXCEPT !.splitlist = Append(@, [pieces |-> pieces,
                                       unified |-> [space |-> "join",
                                                    offset |-> M.joinallocate,
                                                    size |-> totalsize]]),
              !.joinallocate = @ + RoundSize(totalsize),
              !.ret = Len(M.splitlist) + 1,
              !.thrown = ""]

JoinThrow(M, what) == [M EXCEPT !.ret = 0, !.thrown = what]

\* findAddJoin that allocates a record for every call.
findAddJoin_AlwaysNew(M, pieces, logicalsize) ==
    IF Len(pieces) = 0 THEN JoinThrow(M, "Cannot create a join without pieces")
    ELSE IF Len(pieces) = 1 /\ logicalsize = 0
    THEN JoinThrow(M, "Cannot create a single piece join without a logical size")
    ELSE IF logicalsize # 0 /\ Len(pieces) # 1
    THEN JoinThrow(M, "Cannot specify logical size for multiple piece join")
    ELSE newJoin(M, pieces, IF logicalsize # 0 THEN logicalsize ELSE SumSizes(pieces, 1))

\* AddrSpaceManager::findAddJoin; ret is the record returned, as its index in
\* splitlist.
findAddJoin(M, pieces, logicalsize) ==
    IF Len(pieces) = 0 THEN JoinThrow(M, "Cannot create a join without pieces")
    ELSE IF Len(pieces) = 1 /\ logicalsize = 0
    THEN JoinThrow(M, "Cannot create a single piece join without a logical size")
    ELSE IF logicalsize # 0 /\ Len(pieces) # 1
    THEN JoinThrow(M, "Cannot specify logical size for multiple piece join")
    ELSE LET totalsize == IF logicalsize # 0 THEN logicalsize ELSE SumSizes(pieces, 1)
             found == splitsetFind(M, pieces, totalsize)
         IN IF totalsize = 0 THEN JoinThrow(M, "Cannot create a zero size join")
            ELSE IF found # 0 THEN [M EXCEPT !.ret = found, !.thrown = ""]
            ELSE newJoin(M, pieces, totalsize)

\* AddrSpaceManager::findJoin, the binary search (min and max count from 0).
RECURSIVE findJoinFrom(_, _, _, _)
findJoinFrom(M, offset, min, max) ==
    IF min > max THEN JoinThrow(M, "Unlinked join address")
    ELSE LET mid == (min + max) \div 2
             val == M.splitlist[mid + 1].unified.offset
         IN IF val = offset THEN [M EXCEPT !.ret = mid + 1, !.thrown = ""]
            ELSE IF val < offset THEN findJoinFrom(M, offset, mid + 1, max)
            ELSE findJoinFrom(M, offset, min, mid - 1)

\* AddrSpaceManager::findJoin
findJoin(M, offset) == findJoinFrom(M, offset, 0, Len(M.splitlist) - 1)

MgrStep(M, call, case) ==
    /\ mgr.phase = "manager"
    /\ mgr' = M
    /\ last' = [call |-> call, case |-> case]
    /\ UNCHANGED <<vbank, obank, blocks, err, walk, act, srv, her, fd>>

\* The request has been made before.
Repeated(req) ==
    \E i \in 1..Len(mgr.splitlist) :
        /\ mgr.splitlist[i].pieces = req.pieces
        /\ req.logicalsize \in {0, mgr.splitlist[i].unified.size}

FindAddJoinAct(req) ==
    /\ Len(mgr.splitlist) < MaxJoin \/ Repeated(req)
    /\ MgrStep(findAddJoin(mgr, req.pieces, req.logicalsize), "findAddJoin",
               IF Repeated(req) THEN "repeated" ELSE "first")

\* The offsets findJoin is asked for: every fourth byte of the join space in
\* use and of one row beyond.
JoinOffsets == {4 * k : k \in 0..((mgr.joinallocate + 16) \div 4)}

FindJoinAct(offset) == MgrStep(findJoin(mgr, offset), "findJoin", "")

NextMgr ==
    \/ \E req \in JoinRequests : FindAddJoinAct(req)
    \/ \E offset \in JoinOffsets : FindJoinAct(offset)

\* The manager as it is constructed.
InitMgr ==
    /\ vbank = InitVbankLife
    /\ obank = InitObankLife
    /\ blocks = [b \in {1} |-> << >>]
    /\ err = ""
    /\ last = [call |-> "", case |-> ""]
    /\ walk = NoWalk
    /\ act = NoAct
    /\ srv = NoSrv
    /\ her = NoHer
    /\ fd = NoFd
    /\ mgr = [phase |-> "manager", splitlist |-> << >>, joinallocate |-> 0,
              ret |-> 0, thrown |-> ""]

SpecMgr == InitMgr /\ [][NextMgr]_vars

\* ------------------------------------------------------------------ C29
\* C29: findJoin on the offset of a record that findAddJoin has returned
\* returns that record, findJoin on any other offset throws 'Unlinked join
\* address', and a repeated findAddJoin returns the record of the first call
\* and allocates nothing.
C29_JoinRoundTrip ==
    /\ [](mgr.phase = "manager" =>
            /\ \A i \in 1..Len(mgr.splitlist) :
                  LET R == findJoin(mgr, mgr.splitlist[i].unified.offset)
                  IN R.ret = i /\ R.thrown = ""
            /\ \A offset \in JoinOffsets :
                  (\A i \in 1..Len(mgr.splitlist) : mgr.splitlist[i].unified.offset # offset)
                     => findJoin(mgr, offset).thrown = "Unlinked join address")
    /\ [][\A req \in JoinRequests :
             (FindAddJoinAct(req) /\ mgr'.thrown = "") =>
                /\ mgr'.ret \in 1..Len(mgr'.splitlist)
                /\ mgr'.splitlist[mgr'.ret].pieces = req.pieces
                /\ \A i \in 1..Len(mgr.splitlist) :
                      SameJoin(mgr.splitlist[i], req.pieces, mgr'.splitlist[mgr'.ret].unified.size)
                         => /\ mgr'.ret = i
                            /\ mgr'.splitlist = mgr.splitlist
                            /\ mgr'.joinallocate = mgr.joinallocate]_vars

\* A join of 24 bytes was allocated two rows of the join space, a second record
\* after it; the first join has been asked for again and findAddJoin has
\* returned the first record.
C29_Witness ==
    /\ mgr.phase = "manager"
    /\ last = [call |-> "findAddJoin", case |-> "repeated"]
    /\ Len(mgr.splitlist) = 2
    /\ mgr.splitlist[1].unified = [space |-> "join", offset |-> 0, size |-> 24]
    /\ mgr.splitlist[2].unified.offset = 32
    /\ mgr.ret = 1
    /\ mgr.thrown = ""

====
